---- MODULE Spec2Model ----
(***************************************************************************)
(* A model of the PyHeart workflow engine (pyheart/core/workflow.py, held  *)
(* in src/pyheart-package.py): the process registry, the instances, the    *)
(* per-instance run with its dependency gating, handlers, composites and   *)
(* retries, and the dependency scheduler as a pure function.               *)
(*                                                                         *)
(* The engine runs on one asyncio event loop: between two suspension       *)
(* points (an await that really yields) a coroutine runs alone.  The       *)
(* variable "active" names the coroutine that holds the loop; facade calls *)
(* and resumptions happen only while no coroutine holds it.                *)
(***************************************************************************)
EXTENDS Integers, Sequences, FiniteSets, TLC

VARIABLES
    processes,   \* WorkflowEngine.processes: process id -> ProcessDefinition
    instances,   \* WorkflowEngine.instances: instance id -> instance object
    objs,        \* the WorkflowInstance objects ever created, by creation index
    runs,        \* the asyncio tasks running _execute_instance, by creation index
    active,      \* the coroutine holding the event loop: <<run, child>> or Idle
    now,         \* the last reading of the clock used for instance ids
    ret,         \* what the last facade call returned or raised
    hist,        \* per instance object: handler invocation counts, cancel requests
    sched,       \* the scheduler taken alone: its input list, its output, its position
    call,        \* a helper or a registry method taken alone: its arguments and what it returns
    registry     \* the PluginRegistry object: its plugins and metadata dicts

vars == <<processes, instances, objs, runs, active, now, ret, hist, sched, call, registry>>

(***************************************************************************)
(* Bounds of the model                                                     *)
(***************************************************************************)
MaxInstances == 1
MaxPair == 2
MaxTasks == 3

(***************************************************************************)
(* TaskStatus and TaskType                                                 *)
(***************************************************************************)
PENDING == "pending"
RUNNING == "running"
COMPLETED == "completed"
FAILED == "failed"
CANCELLED == "cancelled"
SKIPPED == "skipped"

TaskStatus == {PENDING, RUNNING, COMPLETED, FAILED, CANCELLED, SKIPPED}

TaskType ==
    {"api_call", "transformation", "decision", "notification",
     "human_task", "script", "parallel", "sequence"}

\* An empty dict.
EmptyDict == [k \in {} |-> 0]

\* dict.get(key, default)
Get(d, key, default) == IF key \in DOMAIN d THEN d[key] ELSE default

\* A merge in which the first dict wins on a conflict.
Merge_FirstWins(a, b) ==
    [k \in DOMAIN a \cup DOMAIN b |-> IF k \in DOMAIN a THEN a[k] ELSE b[k]]

\* {**a, **b}: the keys of both, b winning on a conflict.
Merge(a, b) == [k \in DOMAIN a \cup DOMAIN b |-> IF k \in DOMAIN b THEN b[k] ELSE a[k]]

\* d[key] = value on a dict
Put(d, key, value) == [k \in DOMAIN d \cup {key} |-> IF k = key THEN value ELSE d[k]]

\* A Task: config holds the sub-task descriptors of a composite under "tasks".
Task(id, type, dependencies, retry_policy, subtasks) ==
    [id |-> id, type |-> type, config |-> [tasks |-> subtasks],
     dependencies |-> dependencies, retry_policy |-> retry_policy]

\* A ProcessDefinition: no validator is declared on the model class.
ProcessDefinition(id, tasks, variables) ==
    [id |-> id, tasks |-> tasks, variables |-> variables]

(***************************************************************************)
(* The dependency scheduler, _get_execution_order                          *)
(***************************************************************************)
\* next((t for t in tasks if t.id == dep_id), None): the index of the first
\* task of the list with that id, 0 for None.
RECURSIVE FindTask(_, _, _)
FindTask(tasks, dep_id, i) ==
    IF i > Len(tasks) THEN 0
    ELSE IF tasks[i].id = dep_id THEN i
    ELSE FindTask(tasks, dep_id, i + 1)

RECURSIVE Visit(_, _, _)
RECURSIVE VisitDeps(_, _, _, _)

\* visit(task): st is the closure's state, the visited set and the order list.
Visit(tasks, task, st) ==
    IF task.id \in st.visited THEN st
    ELSE LET marked == [visited |-> st.visited \cup {task.id}, order |-> st.order]
             after == VisitDeps(tasks, task.dependencies, 1, marked)
         IN  [visited |-> after.visited, order |-> Append(after.order, task)]

\* for dep_id in task.dependencies: visit the task of that id, if there is one.
VisitDeps(tasks, deps, j, st) ==
    IF j > Len(deps) THEN st
    ELSE LET d == FindTask(tasks, deps[j], 1)
         IN  VisitDeps(tasks, deps, j + 1,
                       IF d = 0 THEN st ELSE Visit(tasks, tasks[d], st))

\* A loop over the tasks that ends at the first task it finds visited already.
RECURSIVE VisitAll_UntilVisited(_, _, _)
VisitAll_UntilVisited(tasks, i, st) ==
    IF i > Len(tasks) THEN st
    ELSE IF tasks[i].id \in st.visited THEN st
    ELSE VisitAll_UntilVisited(tasks, i + 1, Visit(tasks, tasks[i], st))

\* for task in tasks: visit(task)
RECURSIVE VisitAll(_, _, _)
VisitAll(tasks, i, st) ==
    IF i > Len(tasks) THEN st
    ELSE VisitAll(tasks, i + 1, Visit(tasks, tasks[i], st))

\* A scheduler that returns the tasks as listed, ignoring the dependencies.
GetExecutionOrder_AsListed(tasks) == tasks

GetExecutionOrder(tasks) ==
    VisitAll(tasks, 1, [visited |-> {}, order |-> <<>>]).order

(***************************************************************************)
(* The scheduler taken alone: inputs drawn from bounded sets               *)
(***************************************************************************)
SchedIds == {"A", "B", "C"}

\* The dependency lists of the inputs; "X" names no task of any list.
DepLists ==
    {<<>>, <<"A">>, <<"B">>, <<"C">>, <<"A", "B">>, <<"B", "C">>,
     <<"C", "A">>, <<"X">>}

SchedTasks ==
    {Task(id, "notification", deps, EmptyDict, <<>>) : id \in SchedIds, deps \in DepLists}

SchedInputs == UNION {[1..n -> SchedTasks] : n \in 0..MaxTasks}

SchedIdle == [pc |-> "off", tasks |-> <<>>, order |-> <<>>]

\* The engine's variables at construction (WorkflowEngine.__init__).
Idle == <<0, 0>>
\* The record of a facade call: the operation, its argument and what it returned,
\* each under the name of what it is (None is the empty map), and what it raised.
\* No helper is being evaluated.
NoEval == [fn |-> "none"]

\* PluginRegistry.__init__: both dicts empty (a dict is its items in insertion order).
NoRegistry == [plugins |-> <<>>, metadata |-> <<>>]

NoCall == [op |-> "none", arg |-> EmptyDict, raised |-> "none", value |-> EmptyDict]

EngineInit ==
    /\ processes = EmptyDict
    /\ instances = EmptyDict
    /\ objs = <<>>
    /\ runs = <<>>
    /\ active = Idle
    /\ now = 0
    /\ ret = NoCall
    /\ hist = <<>>

engineVars == <<processes, instances, objs, runs, active, now, ret, hist>>

SchedInit ==
    /\ EngineInit
    /\ \E ts \in SchedInputs : sched = [pc |-> "input", tasks |-> ts, order |-> <<>>]
    /\ call = NoEval
    /\ registry = NoRegistry

Schedule ==
    /\ sched.pc = "input"
    /\ sched' = [sched EXCEPT !.pc = "done", !.order = GetExecutionOrder(sched.tasks)]
    /\ UNCHANGED <<engineVars, call, registry>>

SchedNext == Schedule

SpecOrder == SchedInit /\ [][SchedNext]_vars

\* The call is one synchronous step of the caller: once made, it is carried out.
SpecOrderFair == SpecOrder /\ WF_vars(Schedule)

(***************************************************************************)
(* The engine: registry, instances, runs                                   *)
(***************************************************************************)
\* _register_default_handlers: the task types that have a handler.
TaskHandlers ==
    {"api_call", "transformation", "decision", "notification", "parallel", "sequence"}

\* retry_policy.get("max_retries", 3)
DefaultMaxRetries == 3

\* The handlers that await the transport (httpx): the coroutine yields the loop.
Suspends(type) == type = "api_call"

\* f"{task.id}_retries"
RetryKey(task) == task.id \o "_retries"

\* A TaskResult that takes a start timestamp whatever it is made with.
TaskResult_Started(status, started_at) ==
    [status |-> status, output |-> "none", error |-> "none",
     started_at |-> "set", completed_at |-> "none"]

\* A TaskResult that starts as pending whatever status it is made with.
TaskResult_Pending(status, started_at) ==
    [status |-> IF status = RUNNING THEN PENDING ELSE status, output |-> "none",
     error |-> "none", started_at |-> started_at, completed_at |-> "none"]

\* A TaskResult.  output is "none", "value" or, for a composite, the list of the
\* TaskResult objects its sub-tasks returned; times are "none" or "set".
TaskResult(status, started_at) ==
    [status |-> status, output |-> "none", error |-> "none",
     started_at |-> started_at, completed_at |-> "none"]

\* A WorkflowInstance; heap holds the TaskResult objects made for it, and
\* task_results maps a task id to the object recorded for it.
WorkflowInstance(id, process_id, variables) ==
    [id |-> id, process_id |-> process_id, status |-> PENDING,
     variables |-> variables, task_results |-> EmptyDict, heap |-> <<>>]

\* One call chain of _execute_task for a task: result is the TaskResult of the
\* innermost call, first the TaskResult of the outermost call (what is returned).
NoTask == Task("", "notification", <<>>, EmptyDict, <<>>)
NoFrame == [task |-> NoTask, pc |-> "none", result |-> 0, first |-> 0, calls |-> 0]
NewFrame(task, pc) == [task |-> task, pc |-> pc, result |-> 0, first |-> 0, calls |-> 0]

\* The asyncio task created for _execute_instance(instance_id).
NewRun(instance_id) ==
    [instance_id |-> instance_id, pc |-> "created", obj |-> 0, order |-> <<>>,
     idx |-> 0, top |-> NoFrame, kids |-> <<>>, pos |-> 0, results |-> <<>>]

\* What is remembered of an instance beyond its fields: how often the handler of
\* each task id was called and how often it raised, how each TaskResult object
\* came to be, whether a cancel was granted, whether a handler was ever called
\* with a dependency not completed, and the handlers called after a cancel.
NewHist == [invoked |-> EmptyDict, raised |-> EmptyDict, born |-> <<>>,
            cancelled |-> FALSE, ungated |-> FALSE, lateCalls |-> {},
            escaped |-> FALSE, sawRunning |-> {}]

RP(n) == [max_retries |-> n, delay |-> 0]

\* A retry policy outside the declared shape: max_retries holds the string form
\* of n, which the extra field records.
RPText(n) == [max_retries |-> n, delay |-> 0, max_retries_is |-> "str"]

(***************************************************************************)
(* The definitions a caller registers, and the other inputs                *)
(***************************************************************************)
ProcIds == {"p1", "p2"}

\* B is listed before the task it depends on; A retries twice.
DefChain ==
    ProcessDefinition("p1",
        <<Task("B", "notification", <<"A">>, EmptyDict, <<>>),
          Task("A", "api_call", <<>>, RP(2), <<>>),
          Task("C", "api_call", <<"B">>, EmptyDict, <<>>)>>,
        ("x" :> 0))

\* H has a task type without a handler, and a retry policy.
DefHuman ==
    ProcessDefinition("p1",
        <<Task("H", "human_task", <<>>, RP(1), <<>>),
          Task("N", "notification", <<>>, EmptyDict, <<>>),
          Task("M", "script", <<"N">>, EmptyDict, <<>>)>>,
        EmptyDict)

SubTasks ==
    <<Task("s1", "api_call", <<>>, EmptyDict, <<>>),
      Task("s2", "api_call", <<>>, RP(1), <<>>),
      Task("s3", "notification", <<>>, EmptyDict, <<>>)>>

DefParallel ==
    ProcessDefinition("p1",
        <<Task("P", "parallel", <<>>, EmptyDict, SubTasks),
          Task("Z", "api_call", <<"P">>, EmptyDict, <<>>)>>,
        EmptyDict)

DefSequence ==
    ProcessDefinition("p1",
        <<Task("S", "sequence", <<>>, EmptyDict, SubTasks),
          Task("Z", "notification", <<"S">>, EmptyDict, <<>>)>>,
        EmptyDict)

\* Two tasks with the same identifier.
DefDuplicate ==
    ProcessDefinition("p1",
        <<Task("A", "api_call", <<>>, EmptyDict, <<>>),
          Task("A", "notification", <<>>, EmptyDict, <<>>)>>,
        EmptyDict)

\* F fails when its handler raises; G depends on F, I on nothing.
DefFork ==
    ProcessDefinition("p1",
        <<Task("F", "api_call", <<>>, RP(1), <<>>),
          Task("G", "notification", <<"F">>, EmptyDict, <<>>),
          Task("I", "notification", <<>>, EmptyDict, <<>>)>>,
        EmptyDict)

Catalogue == {DefChain, DefHuman, DefParallel, DefSequence, DefDuplicate, DefFork}

\* Definitions with a retry policy outside the declared shape, on a scheduled
\* task, on a sub-task of a sequence and on a sub-task of a parallel task.
DefTextTop ==
    ProcessDefinition("p1",
        <<Task("A", "api_call", <<>>, RPText(1), <<>>),
          Task("B", "notification", <<>>, EmptyDict, <<>>)>>,
        EmptyDict)

TextSubTasks ==
    <<Task("s1", "api_call", <<>>, RPText(1), <<>>),
      Task("s3", "notification", <<>>, EmptyDict, <<>>)>>

DefTextSequence ==
    ProcessDefinition("p1",
        <<Task("S", "sequence", <<>>, EmptyDict, TextSubTasks),
          Task("Z", "notification", <<"S">>, EmptyDict, <<>>)>>,
        EmptyDict)

DefTextParallel ==
    ProcessDefinition("p1",
        <<Task("P", "parallel", <<>>, EmptyDict, TextSubTasks),
          Task("Z", "notification", <<"P">>, EmptyDict, <<>>)>>,
        EmptyDict)

\* Sub-tasks with dependencies: on a sibling, and on the composite they are in.
DefSiblings ==
    ProcessDefinition("p1",
        <<Task("P", "parallel", <<>>, EmptyDict,
               <<Task("s1", "api_call", <<>>, EmptyDict, <<>>),
                 Task("s2", "notification", <<"s1">>, EmptyDict, <<>>)>>),
          Task("Z", "notification", <<"P">>, EmptyDict, <<>>)>>,
        EmptyDict)

DefNested ==
    ProcessDefinition("p1",
        <<Task("S", "sequence", <<>>, EmptyDict,
               <<Task("s1", "api_call", <<>>, EmptyDict, <<>>),
                 Task("s2", "notification", <<"s1">>, EmptyDict, <<>>),
                 Task("s3", "notification", <<"S">>, EmptyDict, <<>>)>>),
          Task("Z", "notification", <<"S">>, EmptyDict, <<>>)>>,
        EmptyDict)

WideCatalogue ==
    {DefFork, DefHuman, DefTextTop, DefTextSequence, DefTextParallel, DefSiblings, DefNested}

\* The variables a caller passes to start_process.
StartVariables == {("x" :> 1)}

\* An instance id is f"{process_id}_{timestamp}": the pair of its two parts.
InstanceId(process_id, timestamp) == <<process_id, timestamp>>

\* datetime.utcnow() at a call of start_process, given the last reading.
Clock(last) == {last + 1}

\* datetime.utcnow() read again: the time of the last reading or a later one
\* (the system clock has a resolution, and is not monotonic).
ClockAgain(last) == IF last = 0 THEN {1} ELSE {last, last + 1}

\* The ids a caller asks about: those it was given, and one it was never given.
UnknownId == InstanceId("p1", 0)
AskedIds == DOMAIN instances \cup {UnknownId}

(***************************************************************************)
(* Facade operations                                                       *)
(***************************************************************************)
\* A registry that refuses to overwrite.
RegisterEffect_KeepFirst(process) ==
    IF process.id \in DOMAIN processes THEN processes ELSE Put(processes, process.id, process)

\* self.processes[process.id] = process
RegisterEffect(process) == Put(processes, process.id, process)

\* A model class that refuses two tasks with the same id.
Validates_UniqueIds(id, tasks, variables) ==
    \A i, j \in 1..Len(tasks) : tasks[i].id = tasks[j].id => i = j

\* ProcessDefinition(id=..., tasks=..., variables=...): the class declares its
\* fields and no validator, so every well-typed argument list is accepted.
Validates(id, tasks, variables) == TRUE

\* The caller constructs the definition and registers it.
Register(process) ==
    /\ active = Idle
    /\ IF ~Validates(process.id, process.tasks, process.variables)
       THEN /\ ret' = [op |-> "construct", arg |-> [process |-> process],
                       raised |-> "ValidationError", value |-> EmptyDict]
            /\ UNCHANGED processes
       ELSE /\ processes' = RegisterEffect(process)
            /\ ret' = [op |-> "register", arg |-> [process |-> process],
                       raised |-> "none", value |-> EmptyDict]
    /\ UNCHANGED <<instances, objs, runs, active, now, hist, sched, call, registry>>

\* A rejection that leaves an entry behind in the instance collection.
StartRejected_Leak(process_id) ==
    /\ instances' = Put(instances, InstanceId(process_id, now), 0)
    /\ UNCHANGED <<processes, objs, runs, active, now, hist, sched, call, registry>>

\* raise ValueError(f"Process {process_id} not found"): nothing was done before it.
StartRejected(process_id) ==
    UNCHANGED <<processes, instances, objs, runs, active, now, hist, sched, call, registry>>

\* start_process with the clock readings it may get and the number of instances
\* the model lets a caller start.
StartWith(process_id, variables, readings, most) ==
    /\ active = Idle
    /\ IF process_id \notin DOMAIN processes
       THEN /\ ret' = [op |-> "start", arg |-> [process_id |-> process_id],
                       raised |-> "ValueError", value |-> EmptyDict]
            /\ StartRejected(process_id)
       ELSE /\ Len(objs) < most
            /\ \E ts \in readings :
                 LET id == InstanceId(process_id, ts)
                     process == processes[process_id]
                 IN  /\ objs' = Append(objs,
                            WorkflowInstance(id, process_id, Merge(process.variables, variables)))
                     /\ instances' = Put(instances, id, Len(objs) + 1)
                     /\ runs' = Append(runs, NewRun(id))
                     /\ hist' = Append(hist, NewHist)
                     /\ now' = ts
                     /\ ret' = [op |-> "start",
                                arg |-> [process_id |-> process_id, variables |-> variables],
                                raised |-> "none", value |-> [instance_id |-> id]]
            /\ UNCHANGED <<processes, active, sched, call, registry>>

\* start_process where every call reads a later time than the call before.
Start(process_id, variables) ==
    StartWith(process_id, variables, Clock(now), MaxInstances)

\* A cancel that does not look at the status.
CancelAllowed_Any(status) == TRUE

CancelAllowed(status) == status = RUNNING

Cancel(instance_id) ==
    /\ active = Idle
    /\ IF instance_id \in DOMAIN instances /\ CancelAllowed(objs[instances[instance_id]].status)
       THEN /\ objs' = [objs EXCEPT ![instances[instance_id]].status = CANCELLED]
            /\ hist' = [hist EXCEPT ![instances[instance_id]].cancelled = TRUE]
            /\ ret' = [op |-> "cancel", arg |-> [instance_id |-> instance_id],
                       raised |-> "none", value |-> [bool |-> TRUE]]
       ELSE /\ ret' = [op |-> "cancel", arg |-> [instance_id |-> instance_id],
                       raised |-> "none", value |-> [bool |-> FALSE]]
            /\ UNCHANGED <<objs, hist>>
    /\ UNCHANGED <<processes, instances, runs, active, now, sched, call, registry>>

(***************************************************************************)
(* The run of one instance.  A coroutine that holds the loop runs alone    *)
(* until it suspends, so each step below is a function of the part of the *)
(* state a run can change, and an action of the model is one resumption   *)
(* followed by the steps up to the next suspension.                        *)
(***************************************************************************)
\* The part of the state a run changes.
Here == [objs |-> objs, runs |-> runs, active |-> active, hist |-> hist]

Becomes(st) ==
    \E s \in {st} :
        /\ objs' = s.objs
        /\ runs' = s.runs
        /\ active' = s.active
        /\ hist' = s.hist

FrameAt(r, f) == IF f = 0 THEN r.top ELSE r.kids[f]
SetFrame(r, f, fr) == IF f = 0 THEN [r EXCEPT !.top = fr] ELSE [r EXCEPT !.kids[f] = fr]

\* The coroutine that executes frame f of a run: gather wraps each sub-task of a
\* parallel task in a task of its own; everything else runs in the run's coroutine.
Co(r, f) == IF f = 0 \/ r.top.task.type # "parallel" THEN 0 ELSE f

\* The recorded status of a task id, "none" without a recorded result.
Recorded(inst, id) ==
    IF id \in DOMAIN inst.task_results THEN inst.heap[inst.task_results[id]].status
    ELSE "none"

Count(d, key) == Put(d, key, Get(d, key, 0) + 1)

(***************************************************************************)
(* _execute_instance                                                       *)
(***************************************************************************)
\* The first step of the asyncio task: the instance and its process are looked
\* up, the status is set and the execution order is computed for the loop.
BeginRun(st, k) ==
    LET o == instances[st.runs[k].instance_id]
        process == processes[st.objs[o].process_id]
    IN  [st EXCEPT !.objs[o].status = RUNNING,
                   !.runs[k].pc = "loop", !.runs[k].obj = o, !.runs[k].idx = 1,
                   !.runs[k].order = GetExecutionOrder(process.tasks),
                   !.active = <<k, 0>>]

\* A run that ends completed whatever the status was.
FinalStatus_Completed(status) == COMPLETED

\* A run that ends with the status it has.
FinalStatus_Kept(status) == status

\* if instance.status != TaskStatus.CANCELLED: instance.status = COMPLETED
FinalStatus(status) == IF status # CANCELLED THEN COMPLETED ELSE status

\* A loop that never looks at the status.
LoopBreaks_Never(status) == FALSE

\* if instance.status == TaskStatus.CANCELLED: break
LoopBreaks(status) == status = CANCELLED

\* The top of an iteration of "for task in order", and the end of the loop.
LoopNext(st, k) ==
    LET r == st.runs[k]
        o == r.obj
    IN  IF r.idx > Len(r.order) \/ LoopBreaks(st.objs[o].status)
        THEN [st EXCEPT !.objs[o].status = FinalStatus(@),
                        !.runs[k].pc = "done",
                        !.active = Idle]
        ELSE [st EXCEPT !.runs[k].pc = "task",
                        !.runs[k].top = NewFrame(r.order[r.idx], "check"),
                        !.runs[k].kids = <<>>, !.runs[k].pos = 0,
                        !.runs[k].results = <<>>]

\* A walk that starts a task a second time when it returns a failed result.
TaskReturn_Again(st, k) ==
    LET r == st.runs[k]
        o == r.obj
        once == Cardinality({n \in 1..Len(st.hist[o].born) :
                    st.hist[o].born[n].kind = "top"
                    /\ st.hist[o].born[n].id = r.top.task.id}) = 1
        failed == st.objs[o].heap[r.top.first].status = FAILED
    IN  [st EXCEPT !.runs[k].pc = "loop",
                   !.runs[k].idx = IF failed /\ once THEN @ ELSE @ + 1]

\* A walk that ends when a task returns a failed result.
TaskReturn_StopAtFailure(st, k) ==
    LET r == st.runs[k]
        failed == st.objs[r.obj].heap[r.top.first].status = FAILED
    IN  [st EXCEPT !.runs[k].pc = "loop",
                   !.runs[k].idx = IF failed THEN Len(r.order) + 1 ELSE @ + 1]

\* await self._execute_task(instance, task) has returned to the loop.
TaskReturn(st, k) ==
    [st EXCEPT !.runs[k].pc = "loop", !.runs[k].idx = @ + 1]

(***************************************************************************)
(* _substitute_variables                                                   *)
(***************************************************************************)
\* A Python value is a record named after its type: [str |-> characters],
\* [int |-> n], [map |-> function of keys], [list |-> sequence].  A variables
\* dict is the sequence of its items in iteration order.

\* str(n) of an integer.
RECURSIVE Digits(_)
Digits(n) ==
    LET d == <<"0", "1", "2", "3", "4", "5", "6", "7", "8", "9">>
    IN  IF n < 10 THEN <<d[n + 1]>> ELSE Digits(n \div 10) \o <<d[(n % 10) + 1]>>

\* str(value)
Str(value) ==
    IF "str" \in DOMAIN value THEN value.str
    ELSE IF value.int < 0 THEN <<"-">> \o Digits(-value.int)
    ELSE Digits(value.int)

\* f"${{{key}}}"
Marker(key) == <<"$", "{">> \o key \o <<"}">>

StartsWith(s, prefix) ==
    Len(s) >= Len(prefix) /\ SubSeq(s, 1, Len(prefix)) = prefix

\* s.replace(old, new) for a non-empty old: the occurrences of old, found from
\* the left without overlap, are replaced.
RECURSIVE Replace(_, _, _)
Replace(s, old, new) ==
    IF Len(s) < Len(old) THEN s
    ELSE IF StartsWith(s, old)
    THEN new \o Replace(SubSeq(s, Len(old) + 1, Len(s)), old, new)
    ELSE <<Head(s)>> \o Replace(Tail(s), old, new)

\* for key, value in variables.items(): template = template.replace(...)
RECURSIVE SubstituteString(_, _, _)
SubstituteString(s, variables, i) ==
    IF i > Len(variables) THEN s
    ELSE SubstituteString(Replace(s, Marker(variables[i].key), Str(variables[i].value)),
                          variables, i + 1)

\* A substitution that stops after the first key.
SubstituteVariables_FirstKey(template, variables) ==
    IF "str" \in DOMAIN template /\ variables # <<>>
    THEN [str |-> Replace(template.str, Marker(variables[1].key), Str(variables[1].value))]
    ELSE template

RECURSIVE SubstituteVariables(_, _)
SubstituteVariables(template, variables) ==
    IF "str" \in DOMAIN template
    THEN [str |-> SubstituteString(template.str, variables, 1)]
    ELSE IF "map" \in DOMAIN template
    THEN [map |-> [k \in DOMAIN template.map |->
                      SubstituteVariables(template.map[k], variables)]]
    ELSE IF "list" \in DOMAIN template
    THEN [list |-> [i \in 1..Len(template.list) |->
                      SubstituteVariables(template.list[i], variables)]]
    ELSE template

\* The templates and the variables the helper is called with.
Text(s) == [str |-> s]
MX == Marker(<<"x">>)
MY == Marker(<<"y">>)
MZ == Marker(<<"z">>)

TemplateStrings ==
    {<<>>, <<"a">>, MX, MY, MZ, MX \o <<"-">> \o MY, MY \o MX, MX \o MX,
     <<"$", "x">>, <<"$", "{", "x">>, <<"$", "{">> \o MX \o <<"}">>}

Templates ==
    {Text(s) : s \in TemplateStrings}
    \cup {[int |-> 5],
          [map |-> ("k" :> Text(MX))],
          [map |-> ("k" :> Text(MX) @@ "n" :> [int |-> 5])],
          [list |-> <<Text(MX), [int |-> 5], Text(<<"a">>)>>],
          [list |-> <<>>],
          [map |-> ("k" :> [list |-> <<Text(MY), [map |-> ("u" :> Text(MX))]>>])]}

VariableValues ==
    {Text(<<"a">>), Text(<<"b">>), Text(MX), Text(MY), Text(<<"y">>),
     [int |-> 7], [int |-> 12], [int |-> -3]}

Item(key, value) == [key |-> key, value |-> value]

VariableDicts ==
    {<<>>}
    \cup {<<Item(<<k>>, v)>> : k \in {"x", "y"}, v \in VariableValues}
    \cup {<<Item(<<"x">>, v), Item(<<"y">>, w)>> : v \in VariableValues, w \in VariableValues}
    \cup {<<Item(<<"y">>, v), Item(<<"x">>, w)>> : v \in VariableValues, w \in VariableValues}

SubstInit ==
    /\ EngineInit
    /\ sched = SchedIdle
    /\ registry = NoRegistry
    /\ \E t \in Templates, v \in VariableDicts :
          call = [fn |-> "substitute_variables", pc |-> "called",
                  template |-> t, variables |-> v, value |-> t]

Substitute ==
    /\ call.pc = "called"
    /\ call' = [call EXCEPT !.pc = "returned",
                            !.value = SubstituteVariables(call.template, call.variables)]
    /\ UNCHANGED <<engineVars, sched, registry>>

SubstNext == Substitute

SpecSubstitute == SubstInit /\ [][SubstNext]_vars

(***************************************************************************)
(* C15                                                                     *)
(***************************************************************************)
\* The value of a key in a variables dict.
Lookup(variables, key) ==
    variables[CHOOSE i \in 1..Len(variables) : variables[i].key = key].value

Keys(variables) == {variables[i].key : i \in 1..Len(variables)}

\* One pass over the original string: at each position a marker of a key is
\* replaced by the string form of its value, and the scan goes on behind it.
RECURSIVE OnePass(_, _)
OnePass(s, variables) ==
    IF s = <<>> THEN s
    ELSE IF \E key \in Keys(variables) : StartsWith(s, Marker(key))
    THEN LET key == CHOOSE key \in Keys(variables) : StartsWith(s, Marker(key))
         IN  Str(Lookup(variables, key))
                 \o OnePass(SubSeq(s, Len(Marker(key)) + 1, Len(s)), variables)
    ELSE <<Head(s)>> \o OnePass(Tail(s), variables)

RECURSIVE Expanded(_, _)
Expanded(template, variables) ==
    IF "str" \in DOMAIN template THEN [str |-> OnePass(template.str, variables)]
    ELSE IF "map" \in DOMAIN template
    THEN [map |-> [k \in DOMAIN template.map |-> Expanded(template.map[k], variables)]]
    ELSE IF "list" \in DOMAIN template
    THEN [list |-> [i \in 1..Len(template.list) |-> Expanded(template.list[i], variables)]]
    ELSE template

\* C15: what _substitute_variables returns is the template with every marker
\* of a key replaced, in one pass over the original strings, by the string form
\* of the key's value, everything else as it was.
C15_OnePassSubstitution ==
    call.fn = "substitute_variables" /\ call.pc = "returned" =>
        call.value = Expanded(call.template, call.variables)

(***************************************************************************)
(* _evaluate_condition                                                     *)
(***************************************************************************)
\* Further Python values: [num |-> n] is the number n / 10 (an int or a float),
\* [none |-> TRUE] is None.  What a helper does is [raised |-> the exception
\* type or "none", value |-> what it returned].
Num(n) == [num |-> n]
None == [none |-> TRUE]
Returns(value) == [raised |-> "none", value |-> value]
Throws(type) == [raised |-> type, value |-> None]

\* if expr.startswith("$"): return variables.get(expr[1:]); return expr.
\* The attribute lookup fails on an expr that is not a string.
GetVariableValue(expr, variables) ==
    IF "str" \notin DOMAIN expr THEN Throws("AttributeError")
    ELSE IF StartsWith(expr.str, <<"$">>)
    THEN Returns(Get(variables, Tail(expr.str), None))
    ELSE Returns(expr)

\* ord(c) of the characters in use.
Ord ==
    ("$" :> 36 @@ "." :> 46 @@ "0" :> 48 @@ "5" :> 53 @@ "a" :> 97 @@ "b" :> 98
     @@ "c" :> 99 @@ "e" :> 101 @@ "g" :> 103 @@ "i" :> 105 @@ "m" :> 109
     @@ "n" :> 110 @@ "o" :> 111 @@ "r" :> 114 @@ "s" :> 115)

\* s < t for strings.
RECURSIVE StrLess(_, _)
StrLess(s, t) ==
    IF t = <<>> THEN FALSE
    ELSE IF s = <<>> THEN TRUE
    ELSE IF Head(s) # Head(t) THEN Ord[Head(s)] < Ord[Head(t)]
    ELSE StrLess(Tail(s), Tail(t))

\* a < b: defined between two numbers and between two strings, TypeError otherwise.
Less(a, b) ==
    IF "num" \in DOMAIN a /\ "num" \in DOMAIN b THEN Returns(a.num < b.num)
    ELSE IF "str" \in DOMAIN a /\ "str" \in DOMAIN b THEN Returns(StrLess(a.str, b.str))
    ELSE Throws("TypeError")

Negated(r) == IF r.raised # "none" THEN r ELSE Returns(~r.value)

Operators == {"eq", "ne", "gt", "lt", "gte", "lte"}

\* The operands are resolved, left first, before the operator is looked at.
EvaluateCondition(condition, variables) ==
    LET operator == Get(condition, "operator", "eq")
        left == Get(condition, "left", Text(<<>>))
        right == Get(condition, "right", Text(<<>>))
        left_call == GetVariableValue(left, variables)
        right_call == GetVariableValue(right, variables)
        left_value == left_call.value
        right_value == right_call.value
    IN  IF left_call.raised # "none" THEN left_call
        ELSE IF right_call.raised # "none" THEN right_call
        ELSE IF operator = "eq" THEN Returns(left_value = right_value)
        ELSE IF operator = "ne" THEN Returns(left_value # right_value)
        ELSE IF operator = "gt" THEN Less(right_value, left_value)
        ELSE IF operator = "lt" THEN Less(left_value, right_value)
        ELSE IF operator = "gte" THEN Negated(Less(left_value, right_value))
        ELSE IF operator = "lte" THEN Negated(Less(right_value, left_value))
        ELSE Returns(FALSE)

\* The conditions and the variables the helper is called with.
Score == <<"s", "c", "o", "r", "e">>
Name == <<"n", "a", "m", "e">>
Half == <<"0", ".", "5">>

OperatorInputs == Operators \cup {"contains", "in", ""}

LeftInputs ==
    {Text(<<"$">> \o Score), Text(<<"$">> \o Name), Text(<<"$", "m", "i", "s", "s">>),
     Text(<<"a">>), Num(5)}

RightInputs ==
    {Num(5), Text(Half), Text(<<"a">>), Text(<<"b">>), Text(<<"$">> \o Score), None}

ConditionInputs ==
    {[operator |-> o, left |-> l, right |-> r] :
        o \in OperatorInputs, l \in LeftInputs, r \in RightInputs}
    \cup {[left |-> l, right |-> r] : l \in LeftInputs, r \in RightInputs}
    \cup {[operator |-> o, right |-> r] : o \in OperatorInputs, r \in RightInputs}
    \cup {[operator |-> o, left |-> l] : o \in OperatorInputs, l \in LeftInputs}

ConditionVariables ==
    {EmptyDict,
     (Score :> Num(8) @@ Name :> Text(<<"a">>)),
     (Score :> Num(3) @@ Name :> Text(<<"b">>)),
     (Score :> Num(5))}

CondInit ==
    /\ EngineInit
    /\ sched = SchedIdle
    /\ registry = NoRegistry
    /\ \E c \in ConditionInputs, v \in ConditionVariables :
          call = [fn |-> "evaluate_condition", pc |-> "called",
                  condition |-> c, variables |-> v, raised |-> "none", value |-> None]

Evaluate ==
    /\ call.pc = "called"
    /\ LET out == EvaluateCondition(call.condition, call.variables)
       IN  call' = [call EXCEPT !.pc = "returned", !.raised = out.raised,
                                !.value = out.value]
    /\ UNCHANGED <<engineVars, sched, registry>>

CondNext == Evaluate

SpecCondition == CondInit /\ [][CondNext]_vars

(***************************************************************************)
(* C16                                                                     *)
(***************************************************************************)
\* A reference to a variable that holds a number.
NumericReference(expr, variables) ==
    /\ "str" \in DOMAIN expr
    /\ StartsWith(expr.str, <<"$">>)
    /\ Tail(expr.str) \in DOMAIN variables
    /\ "num" \in DOMAIN variables[Tail(expr.str)]

\* The comparison of two numbers that an operator names.
NumericComparison(operator, a, b) ==
    IF operator = "eq" THEN a = b
    ELSE IF operator = "ne" THEN a # b
    ELSE IF operator = "gt" THEN a > b
    ELSE IF operator = "lt" THEN a < b
    ELSE IF operator = "gte" THEN a >= b
    ELSE a <= b

\* C16: a condition whose left operand refers to a numeric variable and whose
\* right operand is a numeric literal evaluates, without an exception, to the
\* comparison of the variable's value with the literal that its operator names.
C16_NumericComparison ==
    (/\ call.fn = "evaluate_condition" /\ call.pc = "returned"
     /\ DOMAIN call.condition = {"operator", "left", "right"}
     /\ call.condition.operator \in Operators
     /\ NumericReference(call.condition.left, call.variables)
     /\ "num" \in DOMAIN call.condition.right)
    => /\ call.raised = "none"
       /\ call.value = NumericComparison(call.condition.operator,
                            call.variables[Tail(call.condition.left.str)].num,
                            call.condition.right.num)

(***************************************************************************)
(* C17                                                                     *)
(***************************************************************************)
\* C17: a condition whose operator is none of eq, ne, gt, lt, gte, lte
\* evaluates to false without an exception, whatever its operands are.
C17_UnknownOperatorIsFalse ==
    (/\ call.fn = "evaluate_condition" /\ call.pc = "returned"
     /\ "operator" \in DOMAIN call.condition
     /\ call.condition.operator \notin Operators)
    => call.raised = "none" /\ call.value = FALSE

(***************************************************************************)
(* _handle_decision                                                        *)
(***************************************************************************)
\* _execute_action: set_variable assigns, every other action type does nothing.
ExecuteAction(action, variables) ==
    IF Get(action, "type", "") = "set_variable"
    THEN Put(variables, Get(action, "variable", <<>>), Get(action, "value", Text(<<>>)))
    ELSE variables

\* for action in actions: await self._execute_action(action, instance)
RECURSIVE ExecuteActions(_, _, _)
ExecuteActions(actions, variables, j) ==
    IF j > Len(actions) THEN variables
    ELSE ExecuteActions(actions, ExecuteAction(actions[j], variables), j + 1)

\* The loop over the rules from rule i on.  Beside the outcome and the
\* variables, the number of conditions evaluated and the actions executed
\* (rule, position) are kept.
RECURSIVE HandleDecisionFrom(_, _, _)
HandleDecisionFrom(rules, variables, i) ==
    LET rule == rules[i]
        actions == Get(rule, "actions", <<>>)
        holds == EvaluateCondition(Get(rule, "condition", EmptyDict), variables)
    IN  IF i > Len(rules)
        THEN [raised |-> "none", value |-> FALSE, variables |-> variables,
              evaluated |-> i - 1, fired |-> <<>>]
        ELSE IF holds.raised # "none"
        THEN [raised |-> holds.raised, value |-> None, variables |-> variables,
              evaluated |-> i, fired |-> <<>>]
        ELSE IF holds.value
        THEN [raised |-> "none", value |-> TRUE,
              variables |-> ExecuteActions(actions, variables, 1),
              evaluated |-> i, fired |-> [j \in 1..Len(actions) |-> <<i, j>>]]
        ELSE HandleDecisionFrom(rules, variables, i + 1)

\* rules = task.config.get("rules", []), evaluated on instance.variables.
HandleDecision(rules, variables) == HandleDecisionFrom(rules, variables, 1)

\* The rules and the variables the handler is called with.
Tier == <<"t", "i", "e", "r">>
Ref(name) == Text(<<"$">> \o name)
SetVariable(name, value) == [type |-> "set_variable", variable |-> name, value |-> value]

RuleInputs ==
    {[condition |-> [operator |-> "eq", left |-> Ref(Name), right |-> Text(<<"a">>)],
      actions |-> <<SetVariable(Tier, Text(<<"a">>))>>],
     [condition |-> [operator |-> "ne", left |-> Ref(Name), right |-> Text(<<"c">>)],
      actions |-> <<SetVariable(Tier, Text(<<"b">>)), SetVariable(Name, Text(<<"c">>)),
                    SetVariable(Tier, Text(<<"c">>))>>],
     [condition |-> [operator |-> "eq", left |-> Ref(Name), right |-> Text(<<"b">>)],
      actions |-> <<[type |-> "call_api"], SetVariable(Score, Num(0))>>],
     [condition |-> [operator |-> "gt", left |-> Ref(Score), right |-> Num(5)],
      actions |-> <<SetVariable(Tier, Text(<<"g">>))>>],
     [actions |-> <<SetVariable(Tier, Text(<<"e">>))>>],
     [condition |-> [operator |-> "eq", left |-> Ref(Tier), right |-> Text(<<"a">>)]]}

MaxRules == 3

RuleLists == UNION {[1..n -> RuleInputs] : n \in 0..MaxRules}

DecisionInit ==
    /\ EngineInit
    /\ sched = SchedIdle
    /\ registry = NoRegistry
    /\ \E r \in RuleLists, v \in ConditionVariables :
          call = [fn |-> "handle_decision", pc |-> "called", rules |-> r, before |-> v,
                  raised |-> "none", value |-> None, variables |-> v,
                  evaluated |-> 0, fired |-> <<>>]

Decide ==
    /\ call.pc = "called"
    /\ LET out == HandleDecision(call.rules, call.variables)
       IN  call' = [call EXCEPT !.pc = "returned", !.raised = out.raised,
                                !.value = out.value, !.variables = out.variables,
                                !.evaluated = out.evaluated, !.fired = out.fired]
    /\ UNCHANGED <<engineVars, sched, registry>>

DecisionNext == Decide

SpecDecision == DecisionInit /\ [][DecisionNext]_vars

(***************************************************************************)
(* C18                                                                     *)
(***************************************************************************)
\* The condition of a rule is true of the variables.
Matches(rule, variables) ==
    LET out == EvaluateCondition(Get(rule, "condition", EmptyDict), variables)
    IN  out.raised = "none" /\ out.value

\* C18: when some rule's condition is true of the instance variables, the
\* handler returns true having evaluated the conditions up to the first such
\* rule and executed that rule's actions, in order, and nothing else; when no
\* rule's condition is true it returns false and the variables are unchanged.
C18_FirstMatchingRule ==
    (call.fn = "handle_decision" /\ call.pc = "returned") =>
        LET rules == call.rules
            hits == {i \in 1..Len(rules) : Matches(rules[i], call.before)}
            first == CHOOSE i \in hits : \A j \in hits : i <= j
            actions == Get(rules[first], "actions", <<>>)
        IN  IF hits = {}
            THEN /\ call.raised = "none"
                 /\ call.value = FALSE
                 /\ call.variables = call.before
                 /\ call.fired = <<>>
            ELSE /\ call.raised = "none"
                 /\ call.value = TRUE
                 /\ call.evaluated = first
                 /\ call.fired = [j \in 1..Len(actions) |-> <<first, j>>]
                 /\ call.variables = ExecuteActions(actions, call.before, 1)

(***************************************************************************)
(* _execute_task                                                           *)
(***************************************************************************)
\* A check that only asks whether the dependency has a result.
Blocked_MissingOnly(inst, task) ==
    \E j \in 1..Len(task.dependencies) :
        task.dependencies[j] \notin DOMAIN inst.task_results

\* not dep_result or dep_result.status != TaskStatus.COMPLETED, for some dependency
Blocked(inst, task) ==
    \E j \in 1..Len(task.dependencies) :
        Recorded(inst, task.dependencies[j]) # COMPLETED

\* The dependencies of a task as the claims speak of them: every dependency id
\* has a recorded result whose status is completed.
DepsCompleted(inst, task) ==
    \A j \in 1..Len(task.dependencies) :
        /\ task.dependencies[j] \in DOMAIN inst.task_results
        /\ inst.heap[inst.task_results[task.dependencies[j]]].status = COMPLETED

\* What is known of a TaskResult object beyond its fields: the task it was made
\* for, which call made it (the first call for a scheduled task, a retry, a
\* sub-task of a composite), whether a cancel had been granted before, and
\* whether every dependency of the task was recorded completed at that moment.
Birth(st, k, f) ==
    LET fr == FrameAt(st.runs[k], f)
    IN  [id |-> fr.task.id,
         kind |-> IF fr.calls > 0 THEN "retry" ELSE IF f = 0 THEN "top" ELSE "sub",
         late |-> st.hist[st.runs[k].obj].cancelled,
         gated |-> DepsCompleted(st.objs[st.runs[k].obj], fr.task)]

\* The loop over the dependencies reads them in order up to the first that is not
\* completed: whether one of the results it reads is running.
ReadsRunning(inst, task) ==
    \E j \in 1..Len(task.dependencies) :
        /\ Recorded(inst, task.dependencies[j]) = RUNNING
        /\ \A i \in 1..(j - 1) : Recorded(inst, task.dependencies[i]) = COMPLETED

\* The dependency check, and the result recorded before the handler is called.
ExecCheck(st, k, f) ==
    LET r == st.runs[k]
        o == r.obj
        fr == FrameAt(r, f)
        n == Len(st.objs[o].heap) + 1
        skip == Blocked(st.objs[o], fr.task)
        made == IF skip THEN TaskResult(SKIPPED, "none") ELSE TaskResult(RUNNING, "set")
    IN  [st EXCEPT !.objs[o].heap = Append(@, made),
                   !.objs[o].task_results = Put(@, fr.task.id, n),
                   !.runs[k] = SetFrame(r, f,
                        [fr EXCEPT !.pc = IF skip THEN "ret" ELSE "call",
                                   !.result = n,
                                   !.first = IF fr.calls = 0 THEN n ELSE @,
                                   !.calls = @ + 1]),
                   !.hist[o].born = Append(@, Birth(st, k, f)),
                   !.hist[o].sawRunning =
                        IF ReadsRunning(st.objs[o], fr.task) THEN @ \cup {fr.task.id} ELSE @]

\* A retry test that allows one attempt too many.
RetryAllowed_OneMore(current_retries, max_retries) == current_retries <= max_retries

\* if current_retries < max_retries
RetryAllowed(current_retries, max_retries) == current_retries < max_retries

\* Whether the failure of a task leads to a retry: if task.retry_policy, and the
\* test of _handle_retry.
Retries(inst, task) ==
    /\ task.retry_policy # EmptyDict
    /\ RetryAllowed(Get(inst.variables, RetryKey(task), 0),
                    Get(task.retry_policy, "max_retries", DefaultMaxRetries))

\* current_retries < max_retries raises TypeError when max_retries is a string.
RetryRaises(task) ==
    task.retry_policy # EmptyDict /\ "max_retries_is" \in DOMAIN task.retry_policy

\* The end of a handler call of frame f: returned (ok, with its output) or raised.
\* The result object of this call is completed or failed; a failure with retries
\* left counts the retry and suspends in asyncio.sleep.  An exception raised by
\* _handle_retry leaves _execute_task, and every call of it on the way of a retry:
\* out of a scheduled task it reaches the except of _execute_instance; out of a
\* sub-task of a sequence it is an exception of the sequence's handler; out of a
\* sub-task of a parallel task it ends the sub-task's asyncio task, for gather.
RECURSIVE Settle(_, _, _, _, _)
Settle(st, k, f, ok, output) ==
    LET r == st.runs[k]
        o == r.obj
        fr == FrameAt(r, f)
        escapes == ~ok /\ RetryRaises(fr.task)
        again == ~ok /\ ~escapes /\ Retries(st.objs[o], fr.task)
        key == RetryKey(fr.task)
        set == [st EXCEPT
            !.objs[o].heap[fr.result] =
                IF ok THEN [@ EXCEPT !.status = COMPLETED, !.output = output,
                                     !.completed_at = "set"]
                ELSE [@ EXCEPT !.status = FAILED, !.error = "message",
                               !.completed_at = "set"],
            !.objs[o].variables = IF again THEN Count(@, key) ELSE @,
            !.runs[k] = SetFrame(r, f, [fr EXCEPT !.pc = IF again THEN "sleep" ELSE "ret"]),
            !.active = IF again THEN Idle ELSE <<k, Co(r, f)>>]
    IN  IF ~escapes THEN set
        ELSE IF f = 0
        THEN [set EXCEPT !.objs[o].status = FAILED, !.runs[k].pc = "done",
                         !.active = Idle, !.hist[o].escaped = TRUE]
        ELSE IF r.top.task.type = "parallel"
        THEN [set EXCEPT !.runs[k].kids[f].pc = "raised", !.active = Idle]
        ELSE Settle([set EXCEPT !.hist[o].raised = Count(@, r.top.task.id)],
                    k, 0, FALSE, "none")

\* A handler table that knows every task type.
HasHandler_Always(type) == TRUE

\* handler = self.task_handlers.get(task.type); if not handler: raise ValueError
HasHandler(type) == type \in TaskHandlers

\* A handler is called: the call is counted, with the state it was made in.
Invoked(st, k, f) ==
    LET o == st.runs[k].obj
        task == FrameAt(st.runs[k], f).task
    IN  [st EXCEPT !.hist[o].invoked = Count(@, task.id),
                   !.hist[o].ungated = @ \/ ~DepsCompleted(st.objs[o], task),
                   !.hist[o].lateCalls = IF st.hist[o].cancelled THEN @ \cup {task.id} ELSE @]

\* The handler lookup and the call of the handler, up to its first suspension.
\* The handlers that do not await (transformation, decision, notification as
\* configured here) return at once; the decision handler runs the actions of
\* its first true rule on the instance variables before it returns.
ExecCall(st, k, f) ==
    LET r == st.runs[k]
        fr == FrameAt(r, f)
        type == fr.task.type
        subs == fr.task.config.tasks
        kids == [j \in 1..Len(subs) |-> NewFrame(subs[j], "new")]
        called == Invoked(st, k, f)
    IN  IF ~HasHandler(type) THEN Settle(st, k, f, FALSE, "none")
        ELSE IF type = "parallel"
        THEN [called EXCEPT !.runs[k].top.pc = "gather", !.runs[k].kids = kids,
                            !.active = Idle]
        ELSE IF type = "sequence"
        THEN [called EXCEPT !.runs[k].top.pc = "seq", !.runs[k].kids = kids,
                            !.runs[k].pos = 1, !.runs[k].results = <<>>]
        ELSE IF Suspends(type)
        THEN [called EXCEPT !.runs[k] = SetFrame(r, f, [fr EXCEPT !.pc = "inflight"]),
                            !.active = Idle]
        ELSE IF type = "decision"
        THEN LET o == r.obj
                 out == HandleDecision(Get(fr.task.config, "rules", <<>>),
                                       st.objs[o].variables)
             IN  IF out.raised # "none" THEN Settle(called, k, f, FALSE, "none")
                 ELSE Settle([called EXCEPT !.objs[o].variables = out.variables],
                             k, f, TRUE, "value")
        ELSE Settle(called, k, f, TRUE, "value")

(***************************************************************************)
(* The composite handlers                                                  *)
(***************************************************************************)
\* _handle_sequence: the next sub-task is executed in the run's own coroutine.
SeqNext(st, k) ==
    [st EXCEPT !.runs[k].kids[st.runs[k].pos].pc = "check"]

\* A sequence that goes on after a failed sub-task.
SeqBreaks_Never(status) == FALSE

\* if result.status == TaskStatus.FAILED: break
SeqBreaks(status) == status = FAILED

\* _handle_sequence: the sub-task returned its result; it is appended, and the
\* handler returns the list at the first failed result or after the last sub-task.
SeqCollect(st, k) ==
    LET r == st.runs[k]
        o == r.obj
        results == Append(r.results, r.kids[r.pos].first)
        noted == [st EXCEPT !.runs[k].results = results]
    IN  IF r.pos >= Len(r.kids) \/ SeqBreaks(st.objs[o].heap[r.kids[r.pos].first].status)
        THEN Settle(noted, k, 0, TRUE, results)
        ELSE [noted EXCEPT !.runs[k].pos = @ + 1]

\* _handle_parallel: a sub-task's _execute_task returned; its task is done.
KidDone(st, k, j) ==
    [st EXCEPT !.runs[k].kids[j].pc = "done", !.active = Idle]

\* A gather that leaves the failed results out.
Gathered_NoFailures(inst, kids) ==
    SelectSeq([j \in 1..Len(kids) |-> kids[j].first],
              LAMBDA n : inst.heap[n].status # FAILED)

\* results = await asyncio.gather(*tasks, return_exceptions=True): what each
\* sub-task's _execute_task returned, in the order of the sub-task list.
\* The entry of a sub-task whose _execute_task raised is the exception: 0 here,
\* which is no TaskResult.
Gathered(inst, kids) ==
    [j \in 1..Len(kids) |-> IF kids[j].pc = "raised" THEN 0 ELSE kids[j].first]

(***************************************************************************)
(* The event loop                                                          *)
(***************************************************************************)
\* The next step of the coroutine that holds the loop.
Step(st) ==
    LET k == st.active[1]
        c == st.active[2]
        r == st.runs[k]
        f == IF c > 0 THEN c ELSE IF r.top.pc = "seq" THEN r.pos ELSE 0
        pc == FrameAt(r, f).pc
    IN  IF r.pc = "loop" THEN LoopNext(st, k)
        ELSE IF pc = "check" THEN ExecCheck(st, k, f)
        ELSE IF pc = "call" THEN ExecCall(st, k, f)
        ELSE IF pc = "new" THEN SeqNext(st, k)
        ELSE IF c > 0 THEN KidDone(st, k, c)
        ELSE IF f > 0 THEN SeqCollect(st, k)
        ELSE TaskReturn(st, k)

\* The coroutine that holds the loop runs until it suspends or ends.
RECURSIVE RunOn(_)
RunOn(st) ==
    CHOOSE out \in {IF s.active = Idle THEN s ELSE RunOn(Step(s)) : s \in {st}} : TRUE

\* The loop runs the asyncio task of a started instance for the first time.
RunStart(k) ==
    /\ active = Idle
    /\ runs[k].pc = "created"
    /\ Becomes(RunOn(BeginRun(Here, k)))
    /\ UNCHANGED <<processes, instances, now, ret, sched, call, registry>>

\* The transport call of an in-flight handler ends: the handler returns or raises.
HandlerReturn(k, f, ok) ==
    /\ f \in 0..Len(runs[k].kids)
    /\ active = Idle
    /\ FrameAt(runs[k], f).pc = "inflight"
    /\ LET o == runs[k].obj
           id == FrameAt(runs[k], f).task.id
           noted == [Here EXCEPT !.hist[o].raised = IF ok THEN @ ELSE Count(@, id),
                                 !.active = <<k, Co(runs[k], f)>>]
       IN  Becomes(RunOn(Settle(noted, k, f, ok, "value")))
    /\ UNCHANGED <<processes, instances, now, ret, sched, call, registry>>

\* asyncio.sleep(delay) is over: _handle_retry calls _execute_task again.
RetryWake(k, f) ==
    /\ f \in 0..Len(runs[k].kids)
    /\ active = Idle
    /\ FrameAt(runs[k], f).pc = "sleep"
    /\ Becomes(RunOn([Here EXCEPT
            !.runs[k] = SetFrame(runs[k], f, [FrameAt(runs[k], f) EXCEPT !.pc = "check"]),
            !.active = <<k, Co(runs[k], f)>>]))
    /\ UNCHANGED <<processes, instances, now, ret, sched, call, registry>>

\* _handle_parallel: the loop runs the task of a sub-task for the first time.
KidStart(k, j) ==
    /\ j \in 1..Len(runs[k].kids)
    /\ active = Idle
    /\ runs[k].top.pc = "gather"
    /\ runs[k].kids[j].pc = "new"
    /\ Becomes(RunOn([Here EXCEPT !.runs[k].kids[j].pc = "check", !.active = <<k, j>>]))
    /\ UNCHANGED <<processes, instances, now, ret, sched, call, registry>>

\* A gather that returns as soon as one of its tasks is done.
AllDone_FirstDone(kids) ==
    \E j \in 1..Len(kids) : kids[j].pc \in {"done", "raised"}

\* asyncio.gather returns when every one of its tasks is done (has returned or raised).
AllDone(kids) ==
    \A j \in 1..Len(kids) : kids[j].pc \in {"done", "raised"}

\* _handle_parallel: every sub-task is done; gather returns and so does the handler.
GatherDone(k) ==
    /\ active = Idle
    /\ runs[k].pc = "task"
    /\ runs[k].top.pc = "gather"
    /\ AllDone(runs[k].kids)
    /\ Becomes(RunOn(Settle([Here EXCEPT !.active = <<k, 0>>], k, 0, TRUE,
                            Gathered(objs[runs[k].obj], runs[k].kids))))
    /\ UNCHANGED <<processes, instances, now, ret, sched, call, registry>>

(***************************************************************************)
(* The engine's specification                                              *)
(***************************************************************************)
Init == EngineInit /\ sched = SchedIdle /\ call = NoEval /\ registry = NoRegistry

Runs == 1..Len(runs)
Slots == 0..MaxTasks

Next ==
    \/ \E process \in Catalogue : Register(process)
    \/ \E process_id \in ProcIds, variables \in StartVariables : Start(process_id, variables)
    \/ \E instance_id \in AskedIds : Cancel(instance_id)
    \/ \E k \in Runs : RunStart(k)
    \/ \E k \in Runs, f \in Slots, ok \in BOOLEAN : HandlerReturn(k, f, ok)
    \/ \E k \in Runs, f \in Slots : RetryWake(k, f)
    \/ \E k \in Runs, j \in Slots : KidStart(k, j)
    \/ \E k \in Runs : GatherDone(k)

Spec == Init /\ [][Next]_vars

(***************************************************************************)
(* What the scheduler's contract speaks of                                 *)
(***************************************************************************)
Ids(tasks) == {tasks[i].id : i \in 1..Len(tasks)}

UniqueIds(tasks) ==
    \A i, j \in 1..Len(tasks) : tasks[i].id = tasks[j].id => i = j

\* a depends directly on b, both ids of the list
DependsOn(tasks, a, b) ==
    \E i \in 1..Len(tasks) :
        /\ tasks[i].id = a
        /\ \E j \in 1..Len(tasks[i].dependencies) : tasks[i].dependencies[j] = b
        /\ b \in Ids(tasks)

\* the ids reachable from a in at most n dependency steps (n >= 1)
RECURSIVE ReachWithin(_, _, _)
ReachWithin(tasks, a, n) ==
    LET direct == {b \in Ids(tasks) : DependsOn(tasks, a, b)}
    IN  IF n <= 1 THEN direct
        ELSE direct \cup UNION {ReachWithin(tasks, b, n - 1) : b \in direct}

TransitiveDeps(tasks, a) == ReachWithin(tasks, a, Len(tasks))

Acyclic(tasks) == \A a \in Ids(tasks) : a \notin TransitiveDeps(tasks, a)

\* every task of the input exactly once, and nothing else
IsPermutation(order, tasks) ==
    /\ Len(order) = Len(tasks)
    /\ \A i \in 1..Len(tasks) :
           Cardinality({p \in 1..Len(order) : order[p] = tasks[i]}) = 1

DepsFirst(order, tasks) ==
    \A p \in 1..Len(order) :
        \A b \in TransitiveDeps(tasks, order[p].id) :
            \E q \in 1..(p - 1) : order[q].id = b

\* C1: for every acyclic task list with unique ids the scheduler returns a
\* permutation of the input in which each task comes after every task it
\* depends on, directly or transitively.
C1_TopologicalOrder ==
    (sched.pc = "done" /\ UniqueIds(sched.tasks) /\ Acyclic(sched.tasks))
        => /\ IsPermutation(sched.order, sched.tasks)
           /\ DepsFirst(sched.order, sched.tasks)

\* A list of three tasks listed against their dependencies (C depends on B,
\* B on A, C listed first) was scheduled, and the order differs from the list.
C1_Witness ==
    /\ sched.pc = "done"
    /\ Len(sched.tasks) = 3
    /\ UniqueIds(sched.tasks) /\ Acyclic(sched.tasks)
    /\ sched.tasks[1].id = "C"
    /\ "A" \in TransitiveDeps(sched.tasks, "C")
    /\ ~DependsOn(sched.tasks, "C", "A")
    /\ sched.order # sched.tasks

(***************************************************************************)
(* What the claims about a run speak of                                    *)
(***************************************************************************)
\* The instance object a run drives, once the run has begun.
Begun(k) == runs[k].pc # "created"
InstOf(k) == objs[runs[k].obj]
HistOf(k) == hist[runs[k].obj]

\* The positions of the execution order the walk has left behind: the tasks
\* whose _execute_task has returned to the loop.
Passed(k) == {i \in 1..Len(runs[k].order) : i < runs[k].idx}

Ended(k) == runs[k].pc = "done"

Calls(k, id) == Get(HistOf(k).invoked, id, 0)
Raises(k, id) == Get(HistOf(k).raised, id, 0)

\* C2: a handler is called only while every dependency of its task has a
\* recorded result that is completed; a task the walk has passed that has a
\* dependency without a completed result is recorded skipped and its handler
\* was never called.
C2_DependencyGating ==
    \A k \in Runs : Begun(k) =>
        /\ ~HistOf(k).ungated
        /\ \A i \in Passed(k) :
              LET task == runs[k].order[i]
              IN  ~DepsCompleted(InstOf(k), task)
                    => Recorded(InstOf(k), task.id) = SKIPPED /\ Calls(k, task.id) = 0

\* A failed, B (depending on A) was skipped, and C, whose only dependency is B,
\* was skipped without a call of its handler.
C2_Witness ==
    \E k \in Runs :
        /\ Ended(k)
        /\ Recorded(InstOf(k), "A") = FAILED
        /\ Recorded(InstOf(k), "B") = SKIPPED
        /\ Recorded(InstOf(k), "C") = SKIPPED
        /\ Calls(k, "C") = 0

Objects(o) == 1..Len(objs[o].heap)

Called(op) == ret' # ret /\ ret'.op = op

\* C6: cancel returns true exactly when the instance exists and is running, and
\* then sets its status to cancelled and nothing else; otherwise it returns false
\* and changes nothing.
C6_CancelContract ==
    [][Called("cancel") =>
          LET id == ret'.arg.instance_id
              running == id \in DOMAIN instances /\ objs[instances[id]].status = RUNNING
          IN  /\ ret'.value.bool = running
              /\ ret'.raised = "none"
              /\ objs' = IF running
                         THEN [objs EXCEPT ![instances[id]].status = CANCELLED]
                         ELSE objs
              /\ UNCHANGED <<processes, instances, runs>>]_vars

\* Cancel was granted for an instance in mid-run, and a second cancel of the same
\* instance, now cancelled and still in mid-run, was refused.
C6_Witness ==
    /\ ret.op = "cancel"
    /\ ret.value.bool = FALSE
    /\ ret.arg.instance_id \in DOMAIN instances
    /\ objs[instances[ret.arg.instance_id]].status = CANCELLED
    /\ hist[instances[ret.arg.instance_id]].cancelled
    /\ \E k \in Runs : ~Ended(k)

SubsOf(task) == task.config.tasks
OutputOf(inst, id) == inst.heap[inst.task_results[id]].output

\* C10: a parallel task the walk has passed is recorded completed; its output
\* holds one result per sub-task, in the configured order, each settled; the
\* handler of every sub-task was called; a sub-task whose calls all raised has a
\* result marked failed and one whose calls never raised a result marked
\* completed; and the instance is not failed.
C10_ParallelCollectsAll ==
    \A k \in Runs : Begun(k) =>
        \A i \in Passed(k) :
            LET task == runs[k].order[i]
                inst == InstOf(k)
                out == OutputOf(inst, task.id)
            IN  (task.type = "parallel" /\ DepsCompleted(inst, task)) =>
                  /\ Recorded(inst, task.id) = COMPLETED
                  /\ inst.status # FAILED
                  /\ Len(out) = Len(SubsOf(task))
                  /\ \A j \in 1..Len(SubsOf(task)) :
                        LET sub == SubsOf(task)[j]
                        IN  /\ HistOf(k).born[out[j]].id = sub.id
                            /\ inst.heap[out[j]].status \in {COMPLETED, FAILED, SKIPPED}
                            /\ Calls(k, sub.id) >= 1
                            /\ Raises(k, sub.id) = Calls(k, sub.id)
                                 => inst.heap[out[j]].status = FAILED
                            /\ Raises(k, sub.id) = 0
                                 => inst.heap[out[j]].status = COMPLETED

\* The parallel task returned three results of which exactly one is failed, and
\* the run went on to Z and ended completed.
C10_Witness ==
    \E k \in Runs :
        /\ Ended(k)
        /\ InstOf(k).status = COMPLETED
        /\ Recorded(InstOf(k), "P") = COMPLETED
        /\ Recorded(InstOf(k), "Z") = COMPLETED
        /\ LET out == OutputOf(InstOf(k), "P")
           IN  /\ Len(out) = 3
               /\ InstOf(k).heap[out[1]].status = FAILED
               /\ InstOf(k).heap[out[2]].status = COMPLETED
               /\ InstOf(k).heap[out[3]].status = COMPLETED

(***************************************************************************)
(* Sequence composites                                                     *)
(***************************************************************************)
\* The sub-task calls of a composite that have begun and not yet returned.
InProgress(k) ==
    {j \in 1..Len(runs[k].kids) : runs[k].kids[j].pc \in {"check", "call", "inflight", "sleep"}}

\* C11: while a sequence task runs, at most one of its sub-tasks is in progress
\* and none after it has begun; once the walk has passed the sequence task, its
\* output holds the results returned for a prefix of the configured sub-tasks, in
\* order, none but the last one failed; the list is shorter than the sub-task
\* list only if its last result is failed, and the handlers of the sub-tasks
\* after the prefix were never called.
C11_SequenceStopsAtFailure ==
    \A k \in Runs : Begun(k) =>
        /\ (runs[k].pc = "task" /\ runs[k].top.pc = "seq") =>
              /\ Cardinality(InProgress(k)) <= 1
              /\ \A j \in 1..Len(runs[k].kids) :
                    /\ j > runs[k].pos => runs[k].kids[j].pc = "new"
                    /\ j > runs[k].pos => Calls(k, runs[k].kids[j].task.id) = 0
                    /\ j < runs[k].pos => runs[k].kids[j].pc = "ret"
        /\ \A i \in Passed(k) :
              LET task == runs[k].order[i]
                  inst == InstOf(k)
                  subs == SubsOf(task)
                  out == OutputOf(inst, task.id)
              IN  (task.type = "sequence" /\ DepsCompleted(inst, task)) =>
                    /\ Recorded(inst, task.id) = COMPLETED
                    /\ Len(out) >= 1 /\ Len(out) <= Len(subs)
                    /\ \A j \in 1..Len(out) :
                          /\ HistOf(k).born[out[j]].id = subs[j].id
                          /\ j < Len(out) => inst.heap[out[j]].status # FAILED
                    /\ Len(out) < Len(subs) => inst.heap[out[Len(out)]].status = FAILED
                    /\ \A j \in (Len(out) + 1)..Len(subs) : Calls(k, subs[j].id) = 0

\* Of the sub-tasks [s1, s2, s3], s1 completed and s2 raised at each call: the
\* sequence returned two results, the second failed, and s3 was never called.
C11_Witness ==
    \E k \in Runs :
        /\ Ended(k)
        /\ Recorded(InstOf(k), "S") = COMPLETED
        /\ LET out == OutputOf(InstOf(k), "S")
           IN  /\ Len(out) = 2
               /\ InstOf(k).heap[out[1]].status = COMPLETED
               /\ InstOf(k).heap[out[2]].status = FAILED
        /\ Raises(k, "s2") = Calls(k, "s2") /\ Calls(k, "s2") >= 1
        /\ Calls(k, "s3") = 0

(***************************************************************************)
(* The engine under the event loop's scheduling: a task that is ready is   *)
(* run, a transport call ends (its handler returns or raises), a sleep of  *)
(* a retry ends.                                                           *)
(***************************************************************************)
\* The variables a step of a run changes.
runVars == <<objs, runs, active, hist>>

\* A step of the run of instance k.
RunStep(k) ==
    \/ RunStart(k)
    \/ \E f \in Slots, ok \in BOOLEAN : HandlerReturn(k, f, ok)
    \/ \E f \in Slots : RetryWake(k, f)
    \/ \E j \in Slots : KidStart(k, j)
    \/ GatherDone(k)

\* A run that can take a step eventually takes one.
LoopFairness == \A k \in 1..MaxInstances : WF_runVars(k \in Runs /\ RunStep(k))

\* The engine under an event loop that runs every task that is ready.
SpecFair == Spec /\ LoopFairness

\* A task list every task of which can run: unique ids, no dependency cycle, every
\* dependency a task of the list, every task type with a handler.
Runnable(tasks) ==
    /\ UniqueIds(tasks)
    /\ Acyclic(tasks)
    /\ \A i \in 1..Len(tasks) :
          /\ HasHandler(tasks[i].type)
          /\ \A j \in 1..Len(tasks[i].dependencies) : tasks[i].dependencies[j] \in Ids(tasks)

\* A run in which no handler raised and no cancel was granted.
Clean(k) == DOMAIN HistOf(k).raised = {} /\ ~HistOf(k).cancelled

\* C12: every TaskResult that entered running was made when each dependency of
\* its task was recorded completed; a run of a runnable definition whose handlers
\* all succeeded and that was not cancelled ends with the instance completed and
\* every task recorded completed; and every started run ends.
C12_EndToEndOrdering ==
    /\ [](\A o \in 1..Len(objs) : \A n \in Objects(o) :
             objs[o].heap[n].status # SKIPPED => hist[o].born[n].gated)
    /\ [](\A k \in Runs :
             (Ended(k) /\ Clean(k) /\ Runnable(runs[k].order)) =>
                 /\ InstOf(k).status = COMPLETED
                 /\ \A i \in 1..Len(runs[k].order) :
                       Recorded(InstOf(k), runs[k].order[i].id) = COMPLETED)
    /\ \A k \in 1..MaxInstances : (k \in Runs) ~> (k \in Runs /\ Ended(k))

\* The chain A, B (depending on A), C (depending on B) ran with handlers that
\* succeeded: the instance is completed and so are the three tasks.
C12_Witness ==
    \E k \in Runs :
        /\ Ended(k) /\ Clean(k)
        /\ InstOf(k).status = COMPLETED
        /\ Calls(k, "A") = 1 /\ Calls(k, "B") = 1
        /\ Recorded(InstOf(k), "A") = COMPLETED
        /\ Recorded(InstOf(k), "B") = COMPLETED
        /\ \E n \in Objects(runs[k].obj) :
              HistOf(k).born[n].id = "B" /\ HistOf(k).born[n].gated

(***************************************************************************)
(* C13                                                                     *)
(***************************************************************************)
\* The task the walk of run k meets at position i, and what is recorded for it.
TaskAt(k, i) == runs[k].order[i]
StatusAt(k, i) == Recorded(InstOf(k), TaskAt(k, i).id)

\* The walk of run k has passed a task that is recorded failed.
PassedFailure(k) == \E i \in Passed(k) : StatusAt(k, i) = FAILED

\* C13: when the walk has passed a task recorded failed and then a later task,
\* the later task was recorded skipped without a handler call if it depends on
\* the failed one, and was executed (its result completed or failed, its handler
\* called if its type has one) if all its dependencies are completed; and after
\* a failure the run goes on to its end, which is the end of the task list
\* unless a cancel was granted.
C13_FailureDoesNotAbortWalk ==
    /\ [](\A k \in Runs : \A i \in Passed(k), j \in Passed(k) :
             (i < j /\ StatusAt(k, i) = FAILED) =>
                 /\ (\E d \in 1..Len(TaskAt(k, j).dependencies) :
                        TaskAt(k, j).dependencies[d] = TaskAt(k, i).id) =>
                        /\ StatusAt(k, j) = SKIPPED
                        /\ Calls(k, TaskAt(k, j).id) = 0
                 /\ DepsCompleted(InstOf(k), TaskAt(k, j)) =>
                        /\ StatusAt(k, j) \in {COMPLETED, FAILED}
                        /\ HasHandler(TaskAt(k, j).type) => Calls(k, TaskAt(k, j).id) >= 1)
    /\ \A k \in 1..MaxInstances :
          (k \in Runs /\ PassedFailure(k)) ~>
              (k \in Runs /\ Ended(k)
                 /\ (HistOf(k).cancelled \/ Passed(k) = 1..Len(runs[k].order)))

\* F failed on its first call and on its retry; the walk went on: G, which
\* depends on F, is skipped and I, which depends on nothing, ran and completed.
C13_Witness ==
    \E k \in Runs :
        /\ Ended(k) /\ ~HistOf(k).cancelled
        /\ Raises(k, "F") = 2
        /\ Recorded(InstOf(k), "F") = FAILED
        /\ Recorded(InstOf(k), "G") = SKIPPED /\ Calls(k, "G") = 0
        /\ Recorded(InstOf(k), "I") = COMPLETED /\ Calls(k, "I") = 1
        /\ InstOf(k).status = COMPLETED

(***************************************************************************)
(* C14                                                                     *)
(***************************************************************************)
\* The engine with callers that also register definitions whose retry policies
\* are outside the declared shape.
NextWide ==
    \/ \E process \in WideCatalogue : Register(process)
    \/ \E process_id \in ProcIds, variables \in StartVariables : Start(process_id, variables)
    \/ \E instance_id \in AskedIds : Cancel(instance_id)
    \/ \E k \in Runs : RunStart(k)
    \/ \E k \in Runs, f \in Slots, ok \in BOOLEAN : HandlerReturn(k, f, ok)
    \/ \E k \in Runs, f \in Slots : RetryWake(k, f)
    \/ \E k \in Runs, j \in Slots : KidStart(k, j)
    \/ \E k \in Runs : GatherDone(k)

SpecWide == Init /\ [][NextWide]_vars

\* A task list whose retry policies, sub-tasks included, have the declared shape.
DeclaredShape(tasks) ==
    \A i \in 1..Len(tasks) :
        /\ ~RetryRaises(tasks[i])
        /\ \A j \in 1..Len(SubsOf(tasks[i])) : ~RetryRaises(SubsOf(tasks[i])[j])

\* C14: a run that has ended, for which no cancel was granted and out of whose
\* loop no exception escaped, has left the instance completed, whatever its tasks
\* are recorded as; and the instance of a run whose retry policies have the
\* declared shape is never failed, whichever handlers raised.
C14_FinalStatus ==
    \A k \in Runs :
        /\ (Ended(k) /\ ~HistOf(k).cancelled /\ ~HistOf(k).escaped) =>
               InstOf(k).status = COMPLETED
        /\ (Begun(k) /\ DeclaredShape(runs[k].order)) =>
               InstOf(k).status # FAILED /\ ~HistOf(k).escaped

\* F's handler raised twice and F is failed, G is skipped, and the instance is
\* completed.
C14_Witness ==
    \E k \in Runs :
        /\ Ended(k) /\ ~HistOf(k).cancelled /\ ~HistOf(k).escaped
        /\ Raises(k, "F") = 2
        /\ Recorded(InstOf(k), "F") = FAILED
        /\ Recorded(InstOf(k), "G") = SKIPPED
        /\ InstOf(k).status = COMPLETED

(***************************************************************************)
(* C19                                                                     *)
(***************************************************************************)
\* C19: no dependency check of any task, scheduled or sub-task, has read a
\* recorded result whose status was running.
C19_ChecksReadSettledResults ==
    \A o \in 1..Len(hist) : hist[o].sawRunning = {}

(***************************************************************************)
(* C20                                                                     *)
(***************************************************************************)
\* The TaskResult objects of instance object o made by the first call of
\* _execute_task for a scheduled task, in the order they were made.
Starts(o) == SelectSeq([n \in Objects(o) |-> n], LAMBDA n : hist[o].born[n].kind = "top")

\* Object n of instance object o was made before a later scheduled task started.
Left(o, n) == \E s \in 1..Len(Starts(o)) : Starts(o)[s] > n

\* C20: the scheduled tasks of a run are started one by one in the execution
\* order, each once; when a scheduled task is started, every result made for an
\* earlier scheduled task (first attempts and retries) is completed, failed or
\* skipped, never changes again, and no further attempt of that task follows: at
\* most one scheduled task has a running result, a handler call in flight or a
\* retry pending, and it is the one started last.
C20_StrictlySequential ==
    /\ [](\A k \in Runs : Begun(k) =>
            LET o == runs[k].obj
                order == runs[k].order
                born == hist[o].born
            IN  /\ Len(Starts(o)) <= Len(order)
                /\ \A s \in 1..Len(Starts(o)) : born[Starts(o)[s]].id = order[s].id
                /\ Len(Starts(o)) \in {x \in {runs[k].idx - 1, runs[k].idx} : x >= 0}
                /\ \A n \in Objects(o) :
                      (born[n].id \in Ids(order) /\ Left(o, n)) =>
                          /\ objs[o].heap[n].status \in {COMPLETED, FAILED, SKIPPED}
                          /\ UniqueIds(order) =>
                                \A n3 \in Objects(o) :
                                    (n3 > n /\ born[n3].id = born[n].id) =>
                                        ~\E s \in 1..Len(Starts(o)) :
                                              n < Starts(o)[s] /\ Starts(o)[s] < n3)
    /\ [][\A o \in 1..Len(objs) : \A n \in Objects(o) :
             Left(o, n) => objs'[o].heap[n] = objs[o].heap[n]]_vars

\* A failed and retried twice before B started: three results were made for A,
\* all failed before B's result was made, and the run went on to C.
C20_Witness ==
    \E k \in Runs :
        /\ Ended(k)
        /\ Raises(k, "A") = 3
        /\ Len(Starts(runs[k].obj)) = 3
        /\ Starts(runs[k].obj)[2] = 4
        /\ \A n \in 1..3 : HistOf(k).born[n].id = "A" /\ InstOf(k).heap[n].status = FAILED
        /\ HistOf(k).born[4].id = "B"

(***************************************************************************)
(* The plugin registry (pyheart/core/plugins.py)                           *)
(*                                                                         *)
(* A PluginRegistry keeps two dicts keyed by plugin id: the plugin objects *)
(* and the metadata each returned when it was registered.  A dict is the   *)
(* sequence of its items in insertion order, which is the order in which   *)
(* get_plugins_by_type walks the metadata.  Its methods are synchronous:   *)
(* each is one action.                                                     *)
(***************************************************************************)

\* PluginType members, and a plugin_type that is not a member (a plain string).
Member(name) == [enum |-> name]
ADAPTER == Member("ADAPTER")
WORKFLOW == Member("WORKFLOW")
VALIDATOR == Member("VALIDATOR")
PluginTypes == {ADAPTER, WORKFLOW, VALIDATOR}

PluginMetadata(name, plugin_type, enabled, priority) ==
    [name |-> name, plugin_type |-> plugin_type, enabled |-> enabled,
     priority |-> priority]

\* A plugin object: its identity and what its get_metadata() does.
Plugin(name, metadata) == [plugin |-> name, get_metadata |-> metadata]

\* The plugin objects handed to the registry: adapters of two priorities (two
\* of them tied), a workflow plugin, a disabled plugin, one whose get_metadata
\* raises, and one whose plugin_type is a string rather than a PluginType.
PluginObjects ==
    {Plugin("insurance", Returns(PluginMetadata("insurance", ADAPTER, TRUE, 100))),
     Plugin("provider", Returns(PluginMetadata("provider", ADAPTER, TRUE, 50))),
     Plugin("government", Returns(PluginMetadata("government", ADAPTER, TRUE, 100))),
     Plugin("claims", Returns(PluginMetadata("claims", WORKFLOW, TRUE, 10))),
     Plugin("disabled", Returns(PluginMetadata("disabled", ADAPTER, FALSE, 1))),
     Plugin("broken", Throws("Exception")),
     Plugin("untyped", Returns(PluginMetadata("untyped", [str |-> "adapter"], TRUE, 1)))}

PluginIds == {"a", "b", "c"}

\* d[key] = value on a dict: in place when the key is there, else at the end.
SetItem(d, key, value) ==
    IF key \in Keys(d)
    THEN [i \in 1..Len(d) |-> IF d[i].key = key THEN Item(key, value) ELSE d[i]]
    ELSE Append(d, Item(key, value))

\* del d[key] on a dict that holds the key.
DelItem(d, key) == SelectSeq(d, LAMBDA item : item.key # key)

\* The outcome of a registry method: the registry after it, and what it
\* returned or raised.
Outcome(reg, raised, value) == [registry |-> reg, raised |-> raised, value |-> value]

\* logger.info(..., plugin_type=metadata.plugin_type.value, ...): the attribute
\* lookup raises on a plugin_type that is not a PluginType member.
LogRegistered(metadata) ==
    IF "enum" \in DOMAIN metadata.plugin_type THEN Returns(None)
    ELSE Throws("AttributeError")

\* A register_plugin that does not look for the id in the registry.
RegisterPluginOn_Overwrite(reg, plugin_id, plugin) ==
    LET got == plugin.get_metadata
    IN  IF got.raised # "none" THEN Outcome(reg, "none", FALSE)
        ELSE IF ~got.value.enabled THEN Outcome(reg, "none", FALSE)
        ELSE Outcome([plugins |-> SetItem(reg.plugins, plugin_id, plugin),
                      metadata |-> SetItem(reg.metadata, plugin_id, got.value)],
                     "none", LogRegistered(got.value).raised = "none")

RegisterPluginOn_PluginsOnly(reg, plugin_id, plugin) ==
    IF plugin_id \in Keys(reg.plugins) THEN Outcome(reg, "none", FALSE)
    ELSE LET got == plugin.get_metadata
         IN  IF got.raised # "none" THEN Outcome(reg, "none", FALSE)
             ELSE IF ~got.value.enabled THEN Outcome(reg, "none", FALSE)
             ELSE Outcome([plugins |-> SetItem(reg.plugins, plugin_id, plugin),
                           metadata |-> reg.metadata],
                          "none", LogRegistered(got.value).raised = "none")

\* register_plugin: a known id is refused; get_metadata() raising, or the
\* plugin being disabled, is refused; else both dicts take the id, and an
\* exception of the log line that follows is caught and answered with False.
RegisterPluginOn(reg, plugin_id, plugin) ==
    IF plugin_id \in Keys(reg.plugins) THEN Outcome(reg, "none", FALSE)
    ELSE LET got == plugin.get_metadata
         IN  IF got.raised # "none" THEN Outcome(reg, "none", FALSE)
             ELSE IF ~got.value.enabled THEN Outcome(reg, "none", FALSE)
             ELSE Outcome([plugins |-> SetItem(reg.plugins, plugin_id, plugin),
                           metadata |-> SetItem(reg.metadata, plugin_id, got.value)],
                          "none", LogRegistered(got.value).raised = "none")

\* unregister_plugin: an unknown id is refused; else the cleanup coroutine is
\* handed to the loop (a failure to do so is caught and logged) and the id is
\* deleted from both dicts; del raises KeyError on a dict without the key.
UnregisterPluginOn(reg, plugin_id) ==
    IF plugin_id \notin Keys(reg.plugins) THEN Outcome(reg, "none", FALSE)
    ELSE LET less == [reg EXCEPT !.plugins = DelItem(reg.plugins, plugin_id)]
         IN  IF plugin_id \notin Keys(reg.metadata) THEN Outcome(less, "KeyError", FALSE)
             ELSE Outcome([less EXCEPT !.metadata = DelItem(reg.metadata, plugin_id)],
                          "none", TRUE)

\* get_plugin: self.plugins.get(plugin_id)
GetPluginOn(reg, plugin_id) ==
    IF plugin_id \in Keys(reg.plugins) THEN Lookup(reg.plugins, plugin_id) ELSE None

\* The walk of get_plugins_by_type over the first n metadata items: the plugin
\* of each id whose stored metadata has the type, when the plugins dict holds
\* the id (a plugin object is truthy: Plugin defines neither __bool__ nor __len__).
RECURSIVE OfType(_, _, _)
OfType(reg, plugin_type, n) ==
    IF n = 0 THEN <<>>
    ELSE LET item == reg.metadata[n]
             rest == OfType(reg, plugin_type, n - 1)
         IN  IF item.value.plugin_type = plugin_type /\ item.key \in Keys(reg.plugins)
             THEN Append(rest, Lookup(reg.plugins, item.key))
             ELSE rest

\* The sort key: lambda p: p.get_metadata().priority
Priority(plugin) == plugin.get_metadata.value.priority

InsertByPriority_Append(s, p) == Append(s, p)

\* list.sort(key=...): stable, ascending; s is sorted and p goes behind the
\* elements whose key is not greater than its own.
InsertByPriority(s, p) ==
    LET ahead == SelectSeq(s, LAMBDA q : Priority(q) <= Priority(p))
        behind == SelectSeq(s, LAMBDA q : Priority(q) > Priority(p))
    IN  ahead \o <<p>> \o behind

RECURSIVE SortByPriority(_)
SortByPriority(s) ==
    IF s = <<>> THEN s
    ELSE InsertByPriority(SortByPriority(SubSeq(s, 1, Len(s) - 1)), s[Len(s)])

GetPluginsByTypeOn(reg, plugin_type) ==
    SortByPriority(OfType(reg, plugin_type, Len(reg.metadata)))

\* The record of a registry method taken alone: its arguments, the registry
\* it was called on, and what it returned or raised.
RegistryCall(fn, plugin_id, plugin, plugin_type, before, raised, value) ==
    [fn |-> fn, plugin_id |-> plugin_id, plugin |-> plugin, plugin_type |-> plugin_type,
     before |-> before, raised |-> raised, value |-> value]

RegisterPlugin(plugin_id, plugin) ==
    /\ LET out == RegisterPluginOn(registry, plugin_id, plugin)
       IN  /\ registry' = out.registry
           /\ call' = RegistryCall("register_plugin", plugin_id, plugin, None, registry,
                                   out.raised, out.value)
    /\ UNCHANGED <<engineVars, sched>>

UnregisterPlugin(plugin_id) ==
    /\ LET out == UnregisterPluginOn(registry, plugin_id)
       IN  /\ registry' = out.registry
           /\ call' = RegistryCall("unregister_plugin", plugin_id, None, None, registry,
                                   out.raised, out.value)
    /\ UNCHANGED <<engineVars, sched>>

GetPlugin(plugin_id) ==
    /\ call' = RegistryCall("get_plugin", plugin_id, None, None, registry, "none",
                            GetPluginOn(registry, plugin_id))
    /\ UNCHANGED <<engineVars, sched, registry>>

GetPluginsByType(plugin_type) ==
    /\ call' = RegistryCall("get_plugins_by_type", "", None, plugin_type, registry, "none",
                            GetPluginsByTypeOn(registry, plugin_type))
    /\ UNCHANGED <<engineVars, sched, registry>>

PluginsInit == EngineInit /\ sched = SchedIdle /\ call = NoEval /\ registry = NoRegistry

PluginsNext ==
    \/ \E plugin_id \in PluginIds, plugin \in PluginObjects : RegisterPlugin(plugin_id, plugin)
    \/ \E plugin_id \in PluginIds : UnregisterPlugin(plugin_id)
    \/ \E plugin_id \in PluginIds : GetPlugin(plugin_id)
    \/ \E plugin_type \in PluginTypes : GetPluginsByType(plugin_type)

SpecPlugins == PluginsInit /\ [][PluginsNext]_vars

(***************************************************************************)
(* Claims about the plugin registry                                        *)
(***************************************************************************)

\* C21: after any sequence of register_plugin and unregister_plugin calls the
\* plugins dict and the metadata dict hold exactly the same plugin ids; a
\* register_plugin that returned True has put the id into both dicts and
\* get_plugin on that id returns the plugin that was handed in; an
\* unregister_plugin that returned True has taken the id out of both dicts;
\* an unregister_plugin of an id that was not registered returns False and
\* leaves the registry as it was.
C21_RegistryConsistency ==
    /\ Keys(registry.plugins) = Keys(registry.metadata)
    /\ (call.fn = "register_plugin" /\ call.raised = "none" /\ call.value) =>
          /\ call.plugin_id \in Keys(registry.plugins)
          /\ call.plugin_id \in Keys(registry.metadata)
          /\ GetPluginOn(registry, call.plugin_id) = call.plugin
    /\ (call.fn = "unregister_plugin" /\ call.raised = "none" /\ call.value) =>
          /\ call.plugin_id \notin Keys(registry.plugins)
          /\ call.plugin_id \notin Keys(registry.metadata)
    /\ (call.fn = "unregister_plugin" /\ call.plugin_id \notin Keys(call.before.plugins)) =>
          /\ call.raised = "none"
          /\ call.value = FALSE
          /\ registry = call.before

\* Two plugins were registered and one of them was then unregistered: the
\* call returned True and the other plugin is still registered.
C21_Witness ==
    /\ call.fn = "unregister_plugin"
    /\ call.value
    /\ Len(call.before.plugins) = 2
    /\ Len(registry.plugins) = 1
    /\ Keys(registry.plugins) = Keys(call.before.plugins) \ {call.plugin_id}

\* C22: get_plugins_by_type(t) returns exactly the registered plugins whose
\* stored metadata has type t, one entry for each registered id, in ascending
\* order of priority number (a lower number first); no plugin of another
\* type is in the list.
C22_PluginsByType ==
    call.fn = "get_plugins_by_type" =>
        LET result == call.value
            ids == {id \in Keys(registry.metadata) :
                        Lookup(registry.metadata, id).plugin_type = call.plugin_type}
        IN  /\ registry = call.before
            /\ Len(result) = Cardinality(ids)
            /\ \E at \in [1..Len(result) -> ids] :
                  /\ \A i, j \in 1..Len(result) : at[i] = at[j] => i = j
                  /\ \A i \in 1..Len(result) : result[i] = Lookup(registry.plugins, at[i])
            /\ \A i, j \in 1..Len(result) : i < j => Priority(result[i]) <= Priority(result[j])
            /\ \A i \in 1..Len(result) :
                  result[i].get_metadata.value.plugin_type = call.plugin_type

\* An adapter of priority 100 was registered before an adapter of priority 50,
\* a workflow plugin is registered too, and the adapters were asked for: the
\* list holds the two adapters, the one of priority 50 first.
C22_Witness ==
    /\ call.fn = "get_plugins_by_type"
    /\ call.plugin_type = ADAPTER
    /\ Len(registry.plugins) = 3
    /\ registry.plugins[1].value.plugin = "insurance"
    /\ \E i \in 2..3 : registry.plugins[i].value.plugin = "claims"
    /\ Len(call.value) = 2
    /\ call.value[1].plugin = "provider"
    /\ call.value[2].plugin = "insurance"

(***************************************************************************)
(* Claims about retries, task results and cancellation                     *)
(***************************************************************************)

\* The tasks of a run: the scheduled tasks and the sub-tasks of the composites.
TasksOf(k) ==
    {TaskAt(k, i) : i \in 1..Len(runs[k].order)}
    \cup UNION {{SubsOf(TaskAt(k, i))[j] : j \in 1..Len(SubsOf(TaskAt(k, i)))} :
                    i \in 1..Len(runs[k].order)}

MaxRetriesOf(task) == Get(task.retry_policy, "max_retries", DefaultMaxRetries)

C24_RetrySuccess ==
    \A k \in Runs : (Begun(k) /\ UniqueIds(runs[k].order)) =>
        \A i \in 1..Len(runs[k].order) :
            LET task == TaskAt(k, i)
                calls == Calls(k, task.id)
                raised == Raises(k, task.id)
            IN  (task.retry_policy # EmptyDict /\ HasHandler(task.type)) =>
                    /\ calls \in {raised, raised + 1}
                    /\ (i \in Passed(k) /\ raised \in 1..MaxRetriesOf(task)) =>
                          /\ calls = raised + 1
                          /\ StatusAt(k, i) = COMPLETED
                          /\ \A j \in Passed(k) :
                                (/\ j > i
                                 /\ DependsOn(runs[k].order, TaskAt(k, j).id, task.id)
                                 /\ DepsCompleted(InstOf(k), TaskAt(k, j))) =>
                                    /\ StatusAt(k, j) \in {COMPLETED, FAILED}
                                    /\ HasHandler(TaskAt(k, j).type) =>
                                          Calls(k, TaskAt(k, j).id) >= 1

\* A raised at its first two calls and returned at the third; B, which depends
\* on A, was then executed and is recorded completed.
C24_Witness ==
    \E k \in Runs :
        /\ Ended(k)
        /\ Len(runs[k].order) = 3
        /\ TaskAt(k, 1).id = "A" /\ TaskAt(k, 2).id = "B"
        /\ DependsOn(runs[k].order, "B", "A")
        /\ Raises(k, "A") = 2
        /\ Calls(k, "A") = 3
        /\ StatusAt(k, 1) = COMPLETED
        /\ StatusAt(k, 2) = COMPLETED
        /\ Calls(k, "B") = 1

\* C25: every TaskResult recorded in an instance's task-result map, and every
\* TaskResult made for the instance, is running, completed, failed or skipped,
\* never pending or cancelled, also when the instance is cancelled.
C25_NoPendingOrCancelledResult ==
    \A o \in 1..Len(objs) :
        /\ \A id \in DOMAIN objs[o].task_results :
              Recorded(objs[o], id) \in {RUNNING, COMPLETED, FAILED, SKIPPED}
        /\ \A n \in Objects(o) :
              objs[o].heap[n].status \in {RUNNING, COMPLETED, FAILED, SKIPPED}

\* An instance was cancelled while a handler call was in flight: the instance
\* is cancelled and the result of the task in flight is recorded running.
C25_Witness ==
    \E k \in Runs :
        /\ Begun(k)
        /\ ~Ended(k)
        /\ InstOf(k).status = CANCELLED
        /\ HistOf(k).cancelled
        /\ \E id \in DOMAIN InstOf(k).task_results : Recorded(InstOf(k), id) = RUNNING

\* C26: a TaskResult has an error message only if it is failed and an output
\* only if it is completed; a skipped one has no output, no error and no
\* timestamp; a completed or failed one has a start and an end timestamp (and
\* a running one a start timestamp only).
C26_ResultWellFormed ==
    \A o \in 1..Len(objs) : \A n \in Objects(o) :
        LET result == objs[o].heap[n]
        IN  /\ result.status # FAILED => result.error = "none"
            /\ result.status # COMPLETED => result.output = "none"
            /\ result.status = SKIPPED =>
                  result.started_at = "none" /\ result.completed_at = "none"
            /\ result.status \in {COMPLETED, FAILED} =>
                  result.started_at = "set" /\ result.completed_at = "set"
            /\ result.status = RUNNING =>
                  result.started_at = "set" /\ result.completed_at = "none"

\* A run has ended with a failed result that carries an error, a skipped
\* result and a completed result that carries the handler's output.
C26_Witness ==
    \E k \in Runs :
        /\ Ended(k)
        /\ \E a, b, c \in Objects(runs[k].obj) :
              /\ InstOf(k).heap[a].status = FAILED
              /\ InstOf(k).heap[a].error = "message"
              /\ InstOf(k).heap[b].status = SKIPPED
              /\ InstOf(k).heap[c].status = COMPLETED
              /\ InstOf(k).heap[c].output = "value"

Settled == {COMPLETED, FAILED, SKIPPED}

\* C27: whenever a scheduled parallel task is recorded completed, each of its
\* sub-tasks has a recorded result that is completed, failed or skipped, none
\* running; and when a later scheduled task has been started, the parallel task
\* and each of its sub-tasks are settled.
C27_ParallelJoin ==
    \A k \in Runs : (Begun(k) /\ UniqueIds(runs[k].order)) =>
        \A i \in 1..Len(runs[k].order) :
            LET task == TaskAt(k, i)
                joined == \A j \in 1..Len(SubsOf(task)) :
                              Recorded(InstOf(k), SubsOf(task)[j].id) \in Settled
            IN  task.type = "parallel" =>
                    /\ StatusAt(k, i) = COMPLETED => joined
                    /\ Len(Starts(runs[k].obj)) > i =>
                          StatusAt(k, i) \in Settled /\ joined

\* The parallel task P is recorded completed with sub-task s1 completed and
\* sub-task s2 failed after its retry, and Z, scheduled after P, has started.
C27_Witness ==
    \E k \in Runs :
        /\ Begun(k)
        /\ Len(runs[k].order) = 2
        /\ TaskAt(k, 1).type = "parallel"
        /\ StatusAt(k, 1) = COMPLETED
        /\ Recorded(InstOf(k), "s1") = COMPLETED
        /\ Recorded(InstOf(k), "s2") = FAILED
        /\ Raises(k, "s2") = 2
        /\ Len(Starts(runs[k].obj)) = 2

\* The positions of the execution order whose iteration has not begun.
NotReached(k) ==
    {i \in 1..Len(runs[k].order) :
        IF runs[k].pc = "task" THEN i > runs[k].idx ELSE i >= runs[k].idx}

\* C28: once the instance is cancelled, every scheduled task whose iteration
\* had not begun is left without a recorded result, its handler and those of
\* its sub-tasks are never called; and the task that was being executed when
\* the cancel was granted is recorded completed or failed when the run ends.
C28_CancellationCheck ==
    \A k \in Runs : (Begun(k) /\ UniqueIds(runs[k].order)) =>
        (InstOf(k).status = CANCELLED =>
            /\ \A i \in NotReached(k) :
                  /\ TaskAt(k, i).id \notin DOMAIN InstOf(k).task_results
                  /\ Calls(k, TaskAt(k, i).id) = 0
                  /\ \A j \in 1..Len(SubsOf(TaskAt(k, i))) :
                        /\ SubsOf(TaskAt(k, i))[j].id \notin DOMAIN InstOf(k).task_results
                        /\ Calls(k, SubsOf(TaskAt(k, i))[j].id) = 0
            /\ Ended(k) =>
                  /\ runs[k].idx >= 2
                  /\ StatusAt(k, runs[k].idx - 1) \in {COMPLETED, FAILED})

\* A cancel was granted while A's handler call was in flight: the call then
\* returned, A is recorded completed, and the run ended without a result for
\* B or C and without a call of their handlers.
C28_Witness ==
    \E k \in Runs :
        /\ Ended(k)
        /\ InstOf(k).status = CANCELLED
        /\ Len(runs[k].order) = 3
        /\ runs[k].idx = 2
        /\ TaskAt(k, 1).id = "A"
        /\ StatusAt(k, 1) = COMPLETED
        /\ DOMAIN InstOf(k).task_results = {"A"}
        /\ Calls(k, "B") = 0 /\ Calls(k, "C") = 0

Terminal == {COMPLETED, FAILED, CANCELLED}

\* C29: once the status of an instance is completed, failed or cancelled it
\* never changes again; and an instance for which a cancel was granted has
\* status cancelled when its run has ended, whatever the task in flight did.
C29_TerminalStatusAbsorbing ==
    /\ [][\A o \in 1..Len(objs) :
             objs[o].status \in Terminal => objs'[o].status = objs[o].status]_vars
    /\ [](\A k \in Runs : (Ended(k) /\ HistOf(k).cancelled) => InstOf(k).status = CANCELLED)

(***************************************************************************)
(* Variable seeding and the registered definition                          *)
(***************************************************************************)
\* A decision task: its config holds the rules.
DecisionTask(id, dependencies, rules) ==
    [Task(id, "decision", dependencies, EmptyDict, <<>>)
        EXCEPT !.config = [tasks |-> <<>>, rules |-> rules]]

\* A definition with default variables, a decision task whose first rule is
\* false and whose second rule, which has no condition, sets two variables, and
\* a task with a retry policy.  The conditions compare literals.
DefDecide ==
    ProcessDefinition("p1",
        <<DecisionTask("D", <<>>,
              <<[condition |-> [operator |-> "eq", left |-> Text(<<"a">>),
                                right |-> Text(<<"b">>)],
                 actions |-> <<SetVariable("y", 9)>>],
                [actions |-> <<SetVariable("x", 2), SetVariable("tier", 1)>>]>>),
          Task("F", "api_call", <<"D">>, RP(1), <<>>)>>,
        ("x" :> 0 @@ "y" :> 0))

SeedCatalogue == {DefDecide, DefChain, DefParallel}

\* The variables a caller passes: none, one that overrides a default, and one
\* that overrides another default and adds a key.
SeedVariables == {EmptyDict, ("x" :> 1), ("y" :> 5 @@ "z" :> 1)}

NextSeed ==
    \/ \E process \in SeedCatalogue : Register(process)
    \/ \E process_id \in ProcIds, variables \in SeedVariables : Start(process_id, variables)
    \/ \E instance_id \in AskedIds : Cancel(instance_id)
    \/ \E k \in Runs : RunStart(k)
    \/ \E k \in Runs, f \in Slots, ok \in BOOLEAN : HandlerReturn(k, f, ok)
    \/ \E k \in Runs, f \in Slots : RetryWake(k, f)
    \/ \E k \in Runs, j \in Slots : KidStart(k, j)
    \/ \E k \in Runs : GatherDone(k)

SpecSeed == Init /\ [][NextSeed]_vars

\* C30: a start that succeeds makes the instance variables of the
\* definition's default variables and the caller's variables, the caller's
\* value standing under a key both have, and leaves the definitions as they
\* are; and no step but a register changes a registered definition (its default
\* variables and its task list), whatever a run writes to its instance's
\* variables.
C30_SeedingAndDefinitionFrame ==
    /\ [][(Called("start") /\ ret'.raised = "none") =>
             LET defaults == processes[ret'.arg.process_id].variables
                 given == ret'.arg.variables
                 seeded == objs'[Len(objs')].variables
             IN  /\ Len(objs') = Len(objs) + 1
                 /\ DOMAIN seeded = DOMAIN defaults \cup DOMAIN given
                 /\ \A key \in DOMAIN given : seeded[key] = given[key]
                 /\ \A key \in DOMAIN defaults \ DOMAIN given : seeded[key] = defaults[key]
                 /\ processes' = processes]_vars
    /\ [][processes' # processes => Called("register")]_vars

\* A run of the definition with the decision task has ended: the decision set
\* x, which was seeded from a default or from the caller, and a new variable,
\* the retry counter of F was written, and the registered definition still has
\* its default variables and its task list.
C30_Witness ==
    \E k \in Runs :
        /\ Ended(k)
        /\ processes[InstOf(k).process_id] = DefDecide
        /\ DOMAIN InstOf(k).variables = {"x", "y", "tier", "F_retries"}
        /\ InstOf(k).variables["x"] = 2
        /\ InstOf(k).variables["y"] = 0
        /\ InstOf(k).variables["F_retries"] = 1

(***************************************************************************)
(* C40                                                                     *)
(***************************************************************************)
\* C40: register_plugin with an id that is already registered returns False
\* and the registry is as it was (the plugin and the metadata stored for the
\* id are kept); register_plugin of a plugin whose get_metadata raises, or
\* whose metadata is disabled, returns False and the registry is as it was.
C40_FailedRegisterChangesNothing ==
    (/\ call.fn = "register_plugin"
     /\ \/ call.plugin_id \in Keys(call.before.plugins)
        \/ call.plugin.get_metadata.raised # "none"
        \/ ~call.plugin.get_metadata.value.enabled) =>
        /\ call.raised = "none"
        /\ call.value = FALSE
        /\ registry = call.before

\* A plugin that could be registered was handed in under an id that holds
\* another plugin: the call returned False and the id still holds the first.
C40_Witness ==
    /\ call.fn = "register_plugin"
    /\ call.plugin_id \in Keys(call.before.plugins)
    /\ call.plugin.get_metadata.raised = "none"
    /\ call.plugin.get_metadata.value.enabled
    /\ Lookup(call.before.plugins, call.plugin_id) # call.plugin
    /\ call.value = FALSE
    /\ GetPluginOn(registry, call.plugin_id) = Lookup(call.before.plugins, call.plugin_id)
    /\ Len(registry.plugins) = 2

(***************************************************************************)
(* C36                                                                     *)
(***************************************************************************)
\* The positions of a list that hold a task whose id no other position carries.
DistinctId(tasks) ==
    {i \in 1..Len(tasks) : \A j \in 1..Len(tasks) : tasks[j].id = tasks[i].id => j = i}

\* Every task with a distinct id is in the order exactly once, and the order
\* holds tasks of the list only, no id twice.
Total(order, tasks) ==
    /\ \A i \in DistinctId(tasks) :
           Cardinality({p \in 1..Len(order) : order[p] = tasks[i]}) = 1
    /\ \A p \in 1..Len(order) : \E i \in 1..Len(tasks) : order[p] = tasks[i]
    /\ \A p, q \in 1..Len(order) : order[p].id = order[q].id => p = q

\* C36: _get_execution_order returns on every task list, lists with
\* self-dependencies, dependency cycles and dangling dependency ids included,
\* and what it returns holds every task with a distinct id exactly once.
C36_SchedulerTotality ==
    /\ [](sched.pc = "done" => Total(sched.order, sched.tasks))
    /\ (sched.pc = "input" ~> sched.pc = "done")

\* Three tasks with distinct ids were ordered: one depends on itself, two
\* depend on each other, one names an id that is no task's; all three are in
\* the order.
C36_Witness ==
    /\ sched.pc = "done"
    /\ Len(sched.tasks) = 3
    /\ UniqueIds(sched.tasks)
    /\ \E i \in 1..3 : DependsOn(sched.tasks, sched.tasks[i].id, sched.tasks[i].id)
    /\ \E i, j \in 1..3 :
           /\ i # j
           /\ DependsOn(sched.tasks, sched.tasks[i].id, sched.tasks[j].id)
           /\ DependsOn(sched.tasks, sched.tasks[j].id, sched.tasks[i].id)
    /\ \E i \in 1..3 : sched.tasks[i].dependencies = <<"X">>
    /\ Len(sched.order) = 3

(***************************************************************************)
(* Identifiers shared between scheduled tasks and sub-tasks                *)
(***************************************************************************)
\* A and B depend on each other, C on itself, E on an id that is no task's.
DefCycle ==
    ProcessDefinition("p1",
        <<Task("A", "api_call", <<"B">>, EmptyDict, <<>>),
          Task("B", "notification", <<"A">>, EmptyDict, <<>>),
          Task("C", "api_call", <<"C">>, RP(1), <<>>),
          Task("E", "notification", <<"X">>, EmptyDict, <<>>),
          Task("N", "api_call", <<>>, RP(2), <<>>)>>,
        EmptyDict)

\* Z depends on the id of a sub-task of P; no scheduled task has that id.
DefSubDep ==
    ProcessDefinition("p1",
        <<Task("P", "parallel", <<>>, EmptyDict,
               <<Task("s1", "api_call", <<>>, EmptyDict, <<>>),
                 Task("s2", "notification", <<>>, EmptyDict, <<>>)>>),
          Task("Z", "notification", <<"s1">>, EmptyDict, <<>>)>>,
        EmptyDict)

\* Sub-tasks that carry the ids of scheduled tasks: A, scheduled before the
\* sequence, and B, which is skipped for its dependency on an unknown id.
DefCollide ==
    ProcessDefinition("p1",
        <<Task("A", "api_call", <<>>, EmptyDict, <<>>),
          Task("B", "notification", <<"X">>, EmptyDict, <<>>),
          Task("S", "sequence", <<>>, EmptyDict,
               <<Task("A", "api_call", <<>>, EmptyDict, <<>>),
                 Task("B", "notification", <<>>, EmptyDict, <<>>)>>)>>,
        EmptyDict)

NamesCatalogue == {DefCycle, DefSubDep, DefCollide}

NextNames ==
    \/ \E process \in NamesCatalogue : Register(process)
    \/ \E process_id \in ProcIds, variables \in StartVariables : Start(process_id, variables)
    \/ \E instance_id \in AskedIds : Cancel(instance_id)
    \/ \E k \in Runs : RunStart(k)
    \/ \E k \in Runs, f \in Slots, ok \in BOOLEAN : HandlerReturn(k, f, ok)
    \/ \E k \in Runs, f \in Slots : RetryWake(k, f)
    \/ \E k \in Runs, j \in Slots : KidStart(k, j)
    \/ \E k \in Runs : GatherDone(k)

SpecNames == Init /\ [][NextNames]_vars

(***************************************************************************)
(* C35                                                                     *)
(***************************************************************************)
\* The task has a dependency id that no task of the list has, or depends on
\* itself through the dependencies of the list.
Unsatisfiable(tasks, task) ==
    \/ \E j \in 1..Len(task.dependencies) : task.dependencies[j] \notin Ids(tasks)
    \/ task.id \in TransitiveDeps(tasks, task.id)

\* The results made for the scheduled task at position i of the order by the
\* loop's own call of _execute_task.
MadeFor(k, i) ==
    {n \in Objects(runs[k].obj) :
        /\ HistOf(k).born[n].kind = "top"
        /\ HistOf(k).born[n].id = TaskAt(k, i).id}

\* C35: a scheduled task with a dependency id that is no task's of its
\* definition, or on a dependency cycle, is never executed: the result made for
\* it is skipped (no running result, no handler call), it has that result once
\* the walk has passed it, and the run does not end failed.
C35_UnsatisfiableNeverExecuted ==
    \A k \in Runs : Begun(k) =>
        \A i \in 1..Len(runs[k].order) :
            Unsatisfiable(runs[k].order, TaskAt(k, i)) =>
                /\ \A n \in MadeFor(k, i) : InstOf(k).heap[n].status = SKIPPED
                /\ i \in Passed(k) => MadeFor(k, i) # {}
                /\ Ended(k) => InstOf(k).status # FAILED

(***************************************************************************)
(* C38                                                                     *)
(***************************************************************************)
\* The TaskResult object recorded for a task id, 0 without one.
Entry(inst, id) == IF id \in DOMAIN inst.task_results THEN inst.task_results[id] ELSE 0

Composites == {"parallel", "sequence"}

\* The recorded result of the scheduled task at position i is the same object
\* with the same status after the step.
Kept(k, i) ==
    /\ Entry(objs'[runs[k].obj], TaskAt(k, i).id) = Entry(InstOf(k), TaskAt(k, i).id)
    /\ Recorded(objs'[runs[k].obj], TaskAt(k, i).id) = StatusAt(k, i)

\* C38: while a scheduled parallel or sequence task is being executed, no step
\* changes the recorded result of another scheduled task, whatever ids the
\* sub-tasks carry; and a scheduled task the walk has passed that is recorded
\* completed or skipped keeps that result in every later step of the run.
C38_CompositeFrame ==
    [][\A k \in Runs : Begun(k) =>
          /\ (/\ runs[k].pc = "task"
              /\ runs[k].top.task.type \in Composites
              /\ runs'[k].pc = "task"
              /\ runs'[k].idx = runs[k].idx) =>
                 \A i \in 1..Len(runs[k].order) :
                     TaskAt(k, i).id # TaskAt(k, runs[k].idx).id => Kept(k, i)
          /\ \A i \in Passed(k) :
                 StatusAt(k, i) \in {COMPLETED, SKIPPED} => Kept(k, i)]_vars

(***************************************************************************)
(* C34                                                                     *)
(***************************************************************************)
\* The task id is carried by one task of the run only, scheduled tasks and
\* sub-tasks counted.
UniqueIn(k, id) ==
    Cardinality({i \in 1..Len(runs[k].order) : TaskAt(k, i).id = id})
    + Cardinality({p \in (1..Len(runs[k].order)) \X (1..MaxTasks) :
                      /\ p[2] <= Len(SubsOf(TaskAt(k, p[1])))
                      /\ SubsOf(TaskAt(k, p[1]))[p[2]].id = id}) = 1

\* C34: the TaskResult that _execute_task has returned for a task with an id
\* of its own has the status recorded for that id, also after a first call
\* that raised and a retry that returned; and the list a completed sequence
\* task returned ends before the last sub-task exactly at a sub-task that is
\* recorded failed.
C34_ReturnedAgreesWithRecorded ==
    \A k \in Runs : Begun(k) =>
        /\ \A f \in 0..Len(runs[k].kids) :
               LET fr == FrameAt(runs[k], f)
               IN  (fr.pc \in {"ret", "done"} /\ UniqueIn(k, fr.task.id)) =>
                       InstOf(k).heap[fr.first].status = Recorded(InstOf(k), fr.task.id)
        /\ \A i \in 1..Len(runs[k].order) :
               LET subs == SubsOf(TaskAt(k, i))
               IN  (/\ TaskAt(k, i).type = "sequence"
                    /\ StatusAt(k, i) = COMPLETED
                    /\ \A j \in 1..Len(subs) : UniqueIn(k, subs[j].id)) =>
                       LET out == OutputOf(InstOf(k), TaskAt(k, i).id)
                       IN  \A j \in 1..Len(out) :
                               j < Len(subs) =>
                                   (Len(out) = j <=> Recorded(InstOf(k), subs[j].id) = FAILED)

(***************************************************************************)
(* C37: a definition registered again between start and the run's first step *)
(***************************************************************************)
\* Two definitions registered under the same process id; the default variable
\* "def" of each tells which of them an instance was seeded from (no caller
\* variable and no task writes it).
DefFirst ==
    ProcessDefinition("p1",
        <<Task("A", "api_call", <<>>, RP(1), <<>>),
          Task("B", "notification", <<"A">>, EmptyDict, <<>>)>>,
        ("def" :> 1))

DefSecond ==
    ProcessDefinition("p1",
        <<Task("P", "parallel", <<>>, EmptyDict,
               <<Task("s1", "api_call", <<>>, EmptyDict, <<>>),
                 Task("s2", "notification", <<>>, EmptyDict, <<>>)>>),
          Task("C", "notification", <<>>, EmptyDict, <<>>)>>,
        ("def" :> 2))

BindingCatalogue == {DefFirst, DefSecond}

NextBinding ==
    \/ \E process \in BindingCatalogue : Register(process)
    \/ \E process_id \in ProcIds, variables \in StartVariables : Start(process_id, variables)
    \/ \E instance_id \in AskedIds : Cancel(instance_id)
    \/ \E k \in Runs : RunStart(k)
    \/ \E k \in Runs, f \in Slots, ok \in BOOLEAN : HandlerReturn(k, f, ok)
    \/ \E k \in Runs, f \in Slots : RetryWake(k, f)
    \/ \E k \in Runs, j \in Slots : KidStart(k, j)
    \/ \E k \in Runs : GatherDone(k)

SpecBinding == Init /\ [][NextBinding]_vars

\* C37: the tasks a run executes are those of the definition the instance's
\* variables were seeded from, the one registered under its process id when
\* start was called, also when another definition was registered under that id
\* before the run's first step.
C37_DefinitionBoundAtStart ==
    \A k \in Runs : Begun(k) =>
        \E process \in BindingCatalogue :
            /\ process.variables["def"] = InstOf(k).variables["def"]
            /\ runs[k].order = GetExecutionOrder(process.tasks)

(***************************************************************************)
(* C39: variables that carry the name of a retry counter                   *)
(***************************************************************************)
\* The decision task D sets the variable that is the retry counter of F.
DefReset ==
    ProcessDefinition("p1",
        <<DecisionTask("D", <<>>, <<[actions |-> <<SetVariable("F_retries", 1)>>]>>),
          Task("F", "api_call", <<>>, RP(1), <<>>)>>,
        EmptyDict)

CounterCatalogue == {DefFork, DefReset, DefParallel}

\* The variables a caller passes: one no task reads, and the retry counter of
\* F at one and at minus one.
CounterVariables == {("x" :> 1), ("F_retries" :> 1), ("F_retries" :> -1)}

NextCounter ==
    \/ \E process \in CounterCatalogue : Register(process)
    \/ \E process_id \in ProcIds, variables \in CounterVariables : Start(process_id, variables)
    \/ \E instance_id \in AskedIds : Cancel(instance_id)
    \/ \E k \in Runs : RunStart(k)
    \/ \E k \in Runs, f \in Slots, ok \in BOOLEAN : HandlerReturn(k, f, ok)
    \/ \E k \in Runs, f \in Slots : RetryWake(k, f)
    \/ \E k \in Runs, j \in Slots : KidStart(k, j)
    \/ \E k \in Runs : GatherDone(k)

SpecCounter == Init /\ [][NextCounter]_vars

\* C39: how often the handler of a task with a retry policy is called follows
\* from the policy and from what the calls did, whatever the caller's variables
\* and the variables set by decision actions are: when the walk has passed the
\* task, either a call returned and every call before it raised, at most
\* max_retries of them, or all max_retries + 1 calls raised, or the task was
\* skipped without a call.
C39_RetryCountFromPolicyAndOutcomes ==
    \A k \in Runs : (Begun(k) /\ UniqueIds(runs[k].order)) =>
        \A i \in Passed(k) :
            LET task == TaskAt(k, i)
                calls == Calls(k, task.id)
                raised == Raises(k, task.id)
            IN  (task.retry_policy # EmptyDict /\ HasHandler(task.type)) =>
                    \/ calls = raised + 1 /\ raised <= MaxRetriesOf(task)
                    \/ calls = raised /\ raised = MaxRetriesOf(task) + 1
                    \/ calls = 0 /\ StatusAt(k, i) = SKIPPED

(***************************************************************************)
(* Two instances                                                           *)
(***************************************************************************)
\* A parallel task with one sub-task that is retried once, and a task after it.
DefPair ==
    ProcessDefinition("p1",
        <<Task("P", "parallel", <<>>, EmptyDict,
               <<Task("s1", "api_call", <<>>, RP(1), <<>>)>>),
          Task("Z", "notification", <<"P">>, EmptyDict, <<>>)>>,
        ("x" :> 0))

PairCatalogue == {DefPair}

NextPair ==
    \/ \E process \in PairCatalogue : Register(process)
    \/ \E process_id \in ProcIds, variables \in StartVariables :
           StartWith(process_id, variables, ClockAgain(now), MaxPair)
    \/ \E instance_id \in AskedIds : Cancel(instance_id)
    \/ \E k \in Runs : RunStart(k)
    \/ \E k \in Runs, f \in Slots, ok \in BOOLEAN : HandlerReturn(k, f, ok)
    \/ \E k \in Runs, f \in Slots : RetryWake(k, f)
    \/ \E k \in Runs, j \in Slots : KidStart(k, j)
    \/ \E k \in Runs : GatherDone(k)

SpecPair == Init /\ [][NextPair]_vars

\* C33: every start that returns gives an id that no instance created before
\* has, so every instance created stays the one the collection holds under its
\* id, and the run created with an instance is the one run that drives it.
C33_DistinctInstancePerStart ==
    /\ \A o, p \in 1..Len(objs) : objs[o].id = objs[p].id => o = p
    /\ \A o \in 1..Len(objs) :
           /\ objs[o].id \in DOMAIN instances
           /\ instances[objs[o].id] = o
    /\ \A k \in Runs : Begun(k) => runs[k].obj = k

\* C31: a step of the run created for one instance (a task result made or
\* updated, a variable or retry counter written, the status set) changes no
\* other instance, and a cancel changes at most the instance the collection
\* holds under the id it was called with.
C31_CrossInstanceIsolation ==
    [][/\ \A k \in Runs : runs'[k] # runs[k] =>
              \A o \in 1..Len(objs) : o # k => objs'[o] = objs[o]
       /\ Called("cancel") =>
              \A o \in 1..Len(objs) :
                  (ret'.arg.instance_id \notin DOMAIN instances
                   \/ instances[ret'.arg.instance_id] # o) => objs'[o] = objs[o]]_vars

(***************************************************************************)
(* C32                                                                     *)
(***************************************************************************)
\* The engine with the cyclic and dangling definitions under an event loop that
\* runs every task that is ready, where every transport call and every retry
\* delay ends.
SpecNamesFair == SpecNames /\ LoopFairness

\* C32: every started instance eventually has status completed, failed or
\* cancelled, whether the dependencies of its definition are acyclic, cyclic or
\* dangling and whichever calls raise; and a run that has ended has left its
\* instance with one of these.
C32_RunTermination ==
    /\ [](\A k \in Runs : Ended(k) => InstOf(k).status \in Terminal)
    /\ \A k \in 1..MaxInstances :
           (k \in Runs) ~> (k \in Runs /\ Begun(k) /\ InstOf(k).status \in Terminal)

\* The run of the definition with a dependency cycle has ended completed: the
\* tasks on the cycle were skipped, and N was called three times, every call
\* raising, its two retries used up.
C32_Witness ==
    \E k \in Runs :
        /\ Ended(k)
        /\ ~Acyclic(runs[k].order)
        /\ InstOf(k).status = COMPLETED
        /\ Recorded(InstOf(k), "A") = SKIPPED
        /\ Recorded(InstOf(k), "C") = SKIPPED
        /\ Calls(k, "N") = 3
        /\ Raises(k, "N") = 3
====
